---- MODULE Spec2Model ----
(***************************************************************************)
(* CDDL validation engine for CBOR values (src/src/validator/cbor.rs).    *)
(* The validator is a stateful visitor over the CDDL AST.  Every visit_*  *)
(* method is an operator from the validator record (the fields of         *)
(* CBORValidator) and an AST node to the validator record afterwards.     *)
(* The field "hard" carries the Err(e) of visitor::Result: once it is set *)
(* every enclosing `?` returns at once.                                   *)
(***************************************************************************)
EXTENDS Integers, Sequences, FiniteSets, TLC

VARIABLES cddl, cbor, cv, result, roots, calls, control, control_result

vars == <<cddl, cbor, cv, result, roots, calls, control, control_result>>

(* ---------------- bounds of the model ---------------- *)
(* the number of visitor calls the call stack holds; the visits of the
   schemas without rule cycles nest less deeply than this *)
StackFrames == 25
(* the width at which the model holds the 64-bit integers of serde_json *)
WordBits == 16
MaxCalls == 2
MaxLen == 2
MaxKeys == 3

(* ---------------- Option ---------------- *)
None == <<>>
Some(x) == <<x>>
IsSome(o) == o # <<>>

(* ---------------- serde_cbor::Value ---------------- *)
VInt(i) == [k |-> "Integer", v |-> i]
VText(t) == [k |-> "Text", v |-> t]
VBool(b) == [k |-> "Bool", v |-> b]
VNull == [k |-> "Null", v |-> 0]
VBytes(b) == [k |-> "Bytes", v |-> b]
VFloat(f) == [k |-> "Float", v |-> f]
VArray(a) == [k |-> "Array", v |-> a]
VMap(m) == [k |-> "Map", v |-> m]
VTag(n, inner) == [k |-> "Tag", v |-> <<n, inner>>]

ValEq(a, b) == a.k = b.k /\ a.v = b.v

RECURSIVE contains(_, _)
contains(keys, key) ==
  IF keys = <<>> THEN FALSE
  ELSE ValEq(Head(keys), key) \/ contains(Tail(keys), key)

RECURSIVE map_get(_, _)
map_get(m, key) ==
  IF m = <<>> THEN None
  ELSE IF ValEq(Head(m)[1], key) THEN Some(Head(m)[2])
  ELSE map_get(Tail(m), key)

RECURSIVE find_kind(_, _)
find_kind(m, kind) ==
  IF m = <<>> THEN None
  ELSE IF Head(m)[1].k = kind THEN Some(Head(m))
  ELSE find_kind(Tail(m), kind)

(* ---------------- AST ---------------- *)
Type(tcs) == [type_choices |-> tcs]
TypeChoice(t1) == [type1 |-> t1]
Type1(t2) == [type2 |-> t2, operator |-> None]
Type1Ctl(target, ctrl, controller) ==
  [type2 |-> target,
   operator |-> Some([op |-> "CtlOp", ctrl |-> ctrl, type2 |-> controller])]
Type1Range(lower, upper, is_inclusive) ==
  [type2 |-> lower,
   operator |-> Some([op |-> "RangeOp", is_inclusive |-> is_inclusive, type2 |-> upper])]
T1(t2) == Type(<<TypeChoice(Type1(t2))>>)
Range(lower, upper, is_inclusive) ==
  Type(<<TypeChoice(Type1Range(lower, upper, is_inclusive))>>)
Ctl(target, ctrl, controller) == Type(<<TypeChoice(Type1Ctl(target, ctrl, controller))>>)
Choice(ta, tb) == Type(ta.type_choices \o tb.type_choices)

Typename(id) == [t2 |-> "Typename", ident |-> id, generic_args |-> None]
TypenameG(id, args) == [t2 |-> "Typename", ident |-> id, generic_args |-> Some(args)]
TextValue(t) == [t2 |-> "TextValue", value |-> t]
IntValue(i) == [t2 |-> "IntValue", value |-> i]
UintValue(u) == [t2 |-> "UintValue", value |-> u]
FloatValue(f) == [t2 |-> "FloatValue", value |-> f]
MapT(g) == [t2 |-> "Map", group |-> g]
ArrayT(g) == [t2 |-> "Array", group |-> g]
Paren(t) == [t2 |-> "ParenthesizedType", pt |-> t]
TaggedData(tag, t) == [t2 |-> "TaggedData", tag |-> tag, t |-> t]
DataMajorType(mt, c) == [t2 |-> "DataMajorType", mt |-> mt, constraint |-> c]
AnyT == [t2 |-> "Any"]

Group(gcs) == [group_choices |-> gcs]
GroupChoice(ges) == [group_entries |-> ges]
G1(ges) == Group(<<GroupChoice(ges)>>)

Optional == [o |-> "Optional"]
ZeroOrMore == [o |-> "ZeroOrMore"]
OneOrMore == [o |-> "OneOrMore"]
Exact(l, u) == [o |-> "Exact", lower |-> l, upper |-> u]

MKType1(t1, is_cut) == [mk |-> "Type1", t1 |-> t1, is_cut |-> is_cut]
MKBareword(id) == [mk |-> "Bareword", ident |-> id]
MKValue(tv) == [mk |-> "Value", value |-> tv]

ValueMemberKey(occur, mk, t) ==
  [ge |-> "ValueMemberKey", occur |-> occur, member_key |-> mk, entry_type |-> t]
TypeGroupname(occur, name) ==
  [ge |-> "TypeGroupname", occur |-> occur, name |-> name, generic_args |-> None]
InlineGroup(occur, g) == [ge |-> "InlineGroup", occur |-> occur, group |-> g]

TypeRule(name, gp, t) ==
  [kind |-> "Type", name |-> name, generic_params |-> gp,
   is_type_choice_alternate |-> FALSE, value |-> t]
GroupRule(name, gp, e) ==
  [kind |-> "Group", name |-> name, generic_params |-> gp,
   is_group_choice_alternate |-> FALSE, entry |-> e]

(* token::Value *)
INT(i) == [tv |-> "INT", v |-> i]
UINT(u) == [tv |-> "UINT", v |-> u]
FLOAT(f) == [tv |-> "FLOAT", v |-> f]
TEXT(t) == [tv |-> "TEXT", v |-> t]

token_value_into_cbor_value(value) ==
  CASE value.tv = "UINT" -> VInt(value.v)
    [] value.tv = "INT" -> VInt(value.v)
    [] value.tv = "FLOAT" -> VFloat(value.v)
    [] value.tv = "TEXT" -> VText(value.v)

(* ---------------- helpers of validator/mod.rs and token.rs ---------------- *)
lookup_control_from_str(ctrl) ==
  CASE ctrl = ".eq" -> Some("EQ")
    [] ctrl = ".ne" -> Some("NE")
    [] ctrl = ".lt" -> Some("LT")
    [] ctrl = ".le" -> Some("LE")
    [] ctrl = ".gt" -> Some("GT")
    [] ctrl = ".ge" -> Some("GE")
    [] ctrl = ".size" -> Some("SIZE")
    [] ctrl = ".and" -> Some("AND")
    [] ctrl = ".within" -> Some("WITHIN")
    [] ctrl = ".default" -> Some("DEFAULT")
    [] ctrl = ".regexp" -> Some("REGEXP")
    [] ctrl = ".pcre" -> Some("PCRE")
    [] OTHER -> None

is_ident_string_data_type(c, ident) == ident \in {"text", "tstr"}
is_ident_uint_data_type(c, ident) == ident = "uint"
is_ident_integer_data_type(c, ident) ==
  ident \in {"int", "integer", "nint", "uint", "number", "unsigned"}
is_ident_float_data_type(c, ident) ==
  ident \in {"float", "float16", "float32", "float64", "float16-32", "float32-64", "number"}
is_ident_numeric_data_type(c, ident) ==
  is_ident_integer_data_type(c, ident) \/ is_ident_float_data_type(c, ident)
is_ident_bool_data_type(c, ident) == ident = "bool"
ident_matches_bool_value(c, ident, b) ==
  (ident = "true" /\ b) \/ (ident = "false" /\ ~b)
is_ident_null_data_type(c, ident) == ident \in {"nil", "null"}
is_ident_byte_string_data_type(c, ident) == ident \in {"bstr", "bytes"}
is_ident_any_type(c, ident) == ident = "any"
is_ident_time_data_type(c, ident) == ident = "time"
is_ident_uri_data_type(c, ident) == ident = "uri"
is_ident_b64url_data_type(c, ident) == ident = "b64url"
is_ident_tdate_data_type(c, ident) == ident = "tdate"

RECURSIVE rule_from_ident(_, _)
rule_from_ident(c, ident) ==
  IF c = <<>> THEN None
  ELSE IF Head(c).name = ident
          /\ (Head(c).kind = "Type" => ~Head(c).is_type_choice_alternate)
          /\ (Head(c).kind = "Group" => ~Head(c).is_group_choice_alternate)
       THEN Some(Head(c))
       ELSE rule_from_ident(Tail(c), ident)

RECURSIVE type_choice_alternates_from_ident(_, _)
type_choice_alternates_from_ident(c, ident) ==
  IF c = <<>> THEN <<>>
  ELSE (IF Head(c).kind = "Type" /\ Head(c).name = ident
        THEN <<Head(c).value>> ELSE <<>>)
       \o type_choice_alternates_from_ident(Tail(c), ident)

RECURSIVE group_choice_alternates_from_ident(_, _)
group_choice_alternates_from_ident(c, ident) ==
  IF c = <<>> THEN <<>>
  ELSE (IF Head(c).kind = "Group" /\ Head(c).name = ident
        THEN <<Head(c).entry>> ELSE <<>>)
       \o group_choice_alternates_from_ident(Tail(c), ident)

generic_params_from_rule(rule) == rule.generic_params

(* EntryCount { count, entry_occurrence } of one group choice *)
RECURSIVE entry_counts_from_entries(_, _, _)
entry_counts_from_entries(c, ges, acc) ==
  IF ges = <<>> THEN acc
  ELSE LET e == Head(ges)
           occ == IF IsSome(e.occur) THEN e.occur ELSE acc.entry_occurrence
       IN entry_counts_from_entries(c, Tail(ges),
            [count |-> acc.count + 1, entry_occurrence |-> occ])

entry_counts_from_group_choice(c, gc) ==
  entry_counts_from_entries(c, gc.group_entries, [count |-> 0, entry_occurrence |-> None])

RECURSIVE entry_counts_from_group(_, _)
entry_counts_from_group(c, gcs) ==
  IF gcs = <<>> THEN <<>>
  ELSE <<entry_counts_from_group_choice(c, Head(gcs))>>
       \o entry_counts_from_group(c, Tail(gcs))

entry_count_ok(ec, n) ==
  \/ n = ec.count
  \/ /\ IsSome(ec.entry_occurrence)
     /\ LET o == ec.entry_occurrence[1]
        IN CASE o.o \in {"ZeroOrMore", "Optional"} -> TRUE
             [] o.o = "OneOrMore" -> n > 0
             [] o.o = "Exact" ->
                  /\ (IsSome(o.lower) \/ IsSome(o.upper))
                  /\ (IsSome(o.lower) => n >= o.lower[1])
                  /\ (IsSome(o.upper) => n <= o.upper[1])

validate_entry_count(ecs, n) == \E i \in 1..Len(ecs) : entry_count_ok(ecs[i], n)

(* Ok(iter_items) is <<"Ok", b>>, Err(e) is <<"Err", e>> *)
validate_array_occurrence(occurrence, a) ==
  IF occurrence = None THEN <<"Ok", FALSE>>
  ELSE LET o == occurrence[1]
       IN CASE o.o = "ZeroOrMore" -> <<"Ok", TRUE>>
            [] o.o = "OneOrMore" ->
                 IF a = <<>> THEN <<"Err", "array must have at least one item">>
                 ELSE <<"Ok", TRUE>>
            [] o.o = "Optional" ->
                 IF Len(a) > 1 THEN <<"Err", "array must have 0 or 1 items">>
                 ELSE <<"Ok", FALSE>>
            [] o.o = "Exact" -> <<"Ok", FALSE>>

(* the regex crate on the patterns and texts of the model *)
BadRegex == "("
regex_compiles(t) == t # BadRegex
regex_is_match(t, s) ==
  CASE t = "x+" -> s \in {"x", "xx"}
    [] t = "^x$" -> s = "x"
    [] t = "^xx$" -> s = "xx"
    [] t = "." -> Len(s) >= 1
    [] t = "\\." -> s = "."
    [] OTHER -> s = t

(* serde_json::from_str of the pattern between double quotes: a backslash
   must start a JSON escape, and  \\  unescapes to one backslash *)
BadJsonString == "\\q"
json_string_parses(t) == t # BadJsonString
json_unescape(t) == IF t = "\\\\." THEN "\\." ELSE t

(* ---------------- Display / Debug of values and AST nodes ---------------- *)
RECURSIVE fmt_seq(_, _, _)
fmt_seq(strs, sep, i) ==
  IF i > Len(strs) THEN ""
  ELSE strs[i] \o (IF i < Len(strs) THEN sep ELSE "") \o fmt_seq(strs, sep, i + 1)

RECURSIVE fmt_value(_)
fmt_value(v) ==
  CASE v.k = "Integer" -> "Integer(" \o ToString(v.v) \o ")"
    [] v.k = "Text" -> "Text(\"" \o v.v \o "\")"
    [] v.k = "Null" -> "Null"
    [] v.k = "Bool" -> IF v.v THEN "Bool(true)" ELSE "Bool(false)"
    [] v.k = "Float" -> "Float(" \o ToString(v.v) \o ")"
    [] v.k = "Bytes" -> "Bytes(" \o ToString(Len(v.v)) \o ")"
    [] v.k = "Array" ->
         "Array([" \o fmt_seq([i \in 1..Len(v.v) |-> fmt_value(v.v[i])], ", ", 1) \o "])"
    [] v.k = "Map" ->
         "Map({" \o fmt_seq([i \in 1..Len(v.v) |->
                     fmt_value(v.v[i][1]) \o ": " \o fmt_value(v.v[i][2])], ", ", 1) \o "})"
    [] v.k = "Tag" -> "Tag(" \o ToString(v.v[1]) \o ", " \o fmt_value(v.v[2]) \o ")"

fmt_token_value(value) ==
  IF value.tv = "TEXT" THEN "\"" \o value.v \o "\"" ELSE ToString(value.v)

fmt_token(t) ==
  CASE t = "EQ" -> ".eq"
    [] t = "NE" -> ".ne"
    [] t = "LT" -> ".lt"
    [] t = "LE" -> ".le"
    [] t = "GT" -> ".gt"
    [] t = "GE" -> ".ge"
    [] t = "SIZE" -> ".size"
    [] t = "AND" -> ".and"
    [] t = "WITHIN" -> ".within"
    [] t = "DEFAULT" -> ".default"
    [] t = "REGEXP" -> ".regexp"
    [] t = "PCRE" -> ".pcre"

fmt_occur(o) ==
  CASE o.o = "Optional" -> "?"
    [] o.o = "ZeroOrMore" -> "*"
    [] o.o = "OneOrMore" -> "+"
    [] o.o = "Exact" ->
         (IF IsSome(o.lower) THEN ToString(o.lower[1]) ELSE "") \o "*"
         \o (IF IsSome(o.upper) THEN ToString(o.upper[1]) ELSE "")

RECURSIVE fmt_type(_), fmt_type1(_), fmt_type2(_), fmt_group(_), fmt_entry(_)
fmt_type(t) ==
  fmt_seq([i \in 1..Len(t.type_choices) |-> fmt_type1(t.type_choices[i].type1)], " / ", 1)

fmt_type1(t1) ==
  IF IsSome(t1.operator)
  THEN fmt_type2(t1.type2) \o " "
       \o (IF t1.operator[1].op = "CtlOp" THEN t1.operator[1].ctrl
           ELSE IF t1.operator[1].is_inclusive THEN ".." ELSE "...")
       \o " " \o fmt_type2(t1.operator[1].type2)
  ELSE fmt_type2(t1.type2)

fmt_type2(t2) ==
  CASE t2.t2 = "Typename" -> t2.ident
    [] t2.t2 = "TextValue" -> "\"" \o t2.value \o "\""
    [] t2.t2 \in {"IntValue", "UintValue", "FloatValue"} -> ToString(t2.value)
    [] t2.t2 = "Map" -> "{" \o fmt_group(t2.group) \o "}"
    [] t2.t2 = "Array" -> "[" \o fmt_group(t2.group) \o "]"
    [] t2.t2 = "ChoiceFromInlineGroup" -> "&(" \o fmt_group(t2.group) \o ")"
    [] t2.t2 = "ParenthesizedType" -> "(" \o fmt_type(t2.pt) \o ")"
    [] t2.t2 = "TaggedData" ->
         "#6" \o (IF IsSome(t2.tag) THEN "." \o ToString(t2.tag[1]) ELSE "")
         \o "(" \o fmt_type(t2.t) \o ")"
    [] t2.t2 = "DataMajorType" ->
         "#" \o ToString(t2.mt)
         \o (IF IsSome(t2.constraint) THEN "." \o ToString(t2.constraint[1]) ELSE "")
    [] t2.t2 = "Any" -> "#"

fmt_group(g) ==
  fmt_seq([i \in 1..Len(g.group_choices) |->
             fmt_seq([j \in 1..Len(g.group_choices[i].group_entries) |->
                        fmt_entry(g.group_choices[i].group_entries[j])], ", ", 1)],
          " // ", 1)

fmt_entry(e) ==
  (IF IsSome(e.occur) THEN fmt_occur(e.occur[1]) \o " " ELSE "")
  \o (CASE e.ge = "ValueMemberKey" ->
             (IF IsSome(e.member_key)
              THEN LET mk == e.member_key[1]
                   IN CASE mk.mk = "Bareword" -> mk.ident \o ": "
                        [] mk.mk = "Type1" ->
                             fmt_type1(mk.t1) \o (IF mk.is_cut THEN " ^ => " ELSE " => ")
                        [] mk.mk = "Value" -> fmt_token_value(mk.value) \o ": "
              ELSE "")
             \o fmt_type(e.entry_type)
        [] e.ge = "TypeGroupname" -> e.name
        [] e.ge = "InlineGroup" -> "(" \o fmt_group(e.group) \o ")")

(* ---------------- CBORValidator ---------------- *)
(* overflow_checks is not a field of the struct: it is the build's setting
   of integer overflow checks (on in the dev profile, off in release), which
   decides whether an overflowing 256i128.pow panics or wraps; frames is the
   number of visitor calls on the call stack *)
new(c, value) ==
  [cddl |-> c, cbor |-> value, errors |-> <<>>,
   cddl_location |-> "", cbor_location |-> "",
   occurrence |-> None, group_entry_idx |-> None, object_value |-> None,
   is_member_key |-> FALSE, is_cut_present |-> FALSE, cut_value |-> None,
   eval_generic_rule |-> None, generic_rules |-> <<>>, ctrl |-> None,
   is_group_to_choice_enum |-> FALSE, is_multi_type_choice |-> FALSE,
   is_multi_group_choice |-> FALSE, type_group_name_entry |-> None,
   advance_to_next_entry |-> FALSE, is_ctrl_map_equality |-> FALSE,
   entry_counts |-> None, validated_keys |-> None, values_to_validate |-> None,
   hard |-> None, aborted |-> FALSE, overflow_checks |-> FALSE, frames |-> 0]

from_validator(s, reason) ==
  [reason |-> reason,
   cddl_location |-> s.cddl_location,
   cbor_location |-> s.cbor_location,
   is_multi_type_choice |-> s.is_multi_type_choice,
   is_multi_group_choice |-> s.is_multi_group_choice,
   is_group_to_choice_enum |-> s.is_group_to_choice_enum,
   type_group_name_entry |-> s.type_group_name_entry]

add_error(s, reason) == [s EXCEPT !.errors = Append(@, from_validator(s, reason))]

(* Err(e) returned through `?` *)
raise(s, reason) == [s EXCEPT !.hard = Some(from_validator(s, reason))]
(* a panic (unimplemented!()) unwinds through every caller, and a stack
   overflow ends the process: either way the call returns no result *)
abort(s) == [s EXCEPT !.aborted = TRUE]
Failed(s) == IsSome(s.hard) \/ s.aborted

RECURSIVE add_errors(_, _)
add_errors(s, reasons) ==
  IF reasons = <<>> THEN s ELSE add_errors(add_error(s, Head(reasons)), Tail(reasons))

truncate(s, n) == [s EXCEPT !.errors = SubSeq(@, 1, n)]

OccurIs(s, names) == IsSome(s.occurrence) /\ s.occurrence[1].o \in names

push_validated_key_forgets(s, key) == s

(* validated_keys.get_or_insert(vec![k]).push(k) *)
push_validated_key(s, key) ==
  [s EXCEPT !.validated_keys =
     IF IsSome(@) THEN Some(Append(@[1], key)) ELSE Some(<<key, key>>)]

(* child validator for an array item: lines 1613-1618 *)
item_validator(s, value, idx) ==
  [new(s.cddl, value) EXCEPT
     !.generic_rules = s.generic_rules,
     !.eval_generic_rule = s.eval_generic_rule,
     !.is_multi_type_choice = s.is_multi_type_choice,
     !.overflow_checks = s.overflow_checks,
     !.frames = s.frames,
     !.cbor_location = s.cbor_location \o "/" \o ToString(idx)]

(* child validator for a map key, a hoisted map value or a tagged value:
   lines 2005-2011 *)
value_validator(s, value) ==
  [new(s.cddl, value) EXCEPT
     !.overflow_checks = s.overflow_checks,
     !.frames = s.frames,
     !.generic_rules = s.generic_rules,
     !.eval_generic_rule = s.eval_generic_rule,
     !.is_multi_type_choice = s.is_multi_type_choice,
     !.is_multi_group_choice = s.is_multi_group_choice,
     !.cbor_location = s.cbor_location,
     !.type_group_name_entry = s.type_group_name_entry]

(* `child.visit_x(..)?; self.errors.append(&mut child.errors)` *)
absorb(s, child) ==
  IF Failed(child) THEN [s EXCEPT !.hard = child.hard, !.aborted = child.aborted]
  ELSE [s EXCEPT !.errors = @ \o child.errors]

entry_count_reason(ec, len) ==
  IF IsSome(ec.entry_occurrence)
  THEN "expecting array with length per occurrence " \o fmt_occur(ec.entry_occurrence[1])
  ELSE "expecting array with length " \o ToString(ec.count) \o ", got " \o ToString(len)

RECURSIVE add_entry_count_errors(_, _, _)
add_entry_count_errors(s, ecs, len) ==
  IF ecs = <<>> THEN s
  ELSE add_entry_count_errors(add_error(s, entry_count_reason(Head(ecs), len)), Tail(ecs), len)

(* each group entry of a group choice as type alternatives *)
RECURSIVE type_choices_from_group_choice(_, _), type_choices_from_entries(_, _),
          type_choices_from_group_choices(_, _)
type_choices_from_group_choice(c, gc) == type_choices_from_entries(c, gc.group_entries)

type_choices_from_entries(c, ges) ==
  IF ges = <<>> THEN <<>>
  ELSE LET e == Head(ges)
           tcs == CASE e.ge = "ValueMemberKey" -> e.entry_type.type_choices
                    [] e.ge = "TypeGroupname" ->
                         LET r == rule_from_ident(c, e.name)
                         IN IF r = None THEN <<>>
                            ELSE IF r[1].kind = "Type" THEN r[1].value.type_choices
                            ELSE type_choices_from_entries(c, <<r[1].entry>>)
                    [] e.ge = "InlineGroup" ->
                         type_choices_from_group_choices(c, e.group.group_choices)
       IN tcs \o type_choices_from_entries(c, Tail(ges))

type_choices_from_group_choices(c, gcs) ==
  IF gcs = <<>> THEN <<>>
  ELSE type_choices_from_group_choice(c, Head(gcs))
       \o type_choices_from_group_choices(c, Tail(gcs))

(* ---------------- external parsers on the texts of the model ---------------- *)
uri_parses(t) == t = "https://a"
b64url_decodes(t) == t # "?"
rfc3339_parses(t) == t = "2020-01-01T00:00:00Z"

(* ---------------- the visitor ---------------- *)
RECURSIVE Visitor(_, _, _)
RECURSIVE type_rule_alternates(_, _, _, _), group_rule_alternates(_, _, _, _),
          type_choices_loop(_, _, _, _), group_choices_loop(_, _, _, _),
          group_entries_loop(_, _, _), member_key_map_loop(_, _, _, _, _, _),
          visit_array(_, _, _, _), visit_item(_, _, _), iter_items_loop(_, _, _, _, _),
          values_to_validate_loop(_, _, _, _, _)

visit_occurrence(s, o) == [s EXCEPT !.occurrence = Some(o)]

(* lines 234-248 and 268-282: register the generic parameters of a rule *)
register_generic_params(s, name, gp) ==
  IF gp = None THEN s
  ELSE IF \E i \in 1..Len(s.generic_rules) : s.generic_rules[i].name = name
       THEN LET i == CHOOSE j \in 1..Len(s.generic_rules) :
                       /\ s.generic_rules[j].name = name
                       /\ \A h \in 1..(j - 1) : s.generic_rules[h].name # name
            IN [s EXCEPT !.generic_rules[i].params = gp[1]]
       ELSE [s EXCEPT !.generic_rules =
               Append(@, [name |-> name, params |-> gp[1], args |-> <<>>])]

(* walk_rule *)
visit_rule(s, r) ==
  IF r.kind = "Type" THEN Visitor(s, "visit_type_rule", <<r>>) ELSE Visitor(s, "visit_group_rule", <<r>>)

visit_type_rule(s, tr) ==
  LET s0 == register_generic_params(s, tr.name, tr.generic_params)
  IN type_rule_alternates(s0, type_choice_alternates_from_ident(s0.cddl, tr.name),
                          1, Len(s0.errors))

type_rule_alternates(s, alts, i, error_count) ==
  IF i > Len(alts) THEN s
  ELSE LET cur_errors == Len(s.errors)
           s1 == Visitor(s, "visit_type", <<alts[i]>>)
       IN IF Failed(s1) THEN s1
          ELSE IF Len(s1.errors) = cur_errors THEN truncate(s1, error_count)
          ELSE type_rule_alternates(s1, alts, i + 1, error_count)

visit_group_rule(s, gr) ==
  LET s0 == register_generic_params(s, gr.name, gr.generic_params)
  IN group_rule_alternates(s0, group_choice_alternates_from_ident(s0.cddl, gr.name),
                           1, Len(s0.errors))

group_rule_alternates(s, alts, i, error_count) ==
  IF i > Len(alts) THEN s
  ELSE LET cur_errors == Len(s.errors)
           s1 == Visitor(s, "visit_group_entry", <<alts[i]>>)
       IN IF Failed(s1) THEN s1
          ELSE IF Len(s1.errors) = cur_errors THEN truncate(s1, error_count)
          ELSE group_rule_alternates(s1, alts, i + 1, error_count)

visit_type(s, t) ==
  LET s0 == IF Len(t.type_choices) > 1
            THEN [s EXCEPT !.is_multi_type_choice = TRUE] ELSE s
  IN type_choices_loop(s0, t.type_choices, 1, Len(s0.errors))

type_choices_loop(s, tcs, i, initial_error_count) ==
  IF i > Len(tcs) THEN s
  ELSE LET error_count == Len(s.errors)
           s1 == Visitor(s, "visit_type_choice", <<tcs[i]>>)
       IN IF Failed(s1) THEN s1
          ELSE IF Len(s1.errors) = error_count THEN truncate(s1, initial_error_count)
          ELSE type_choices_loop(s1, tcs, i + 1, initial_error_count)

(* walk_type_choice, walk_type1, walk_operator *)
visit_type_choice(s, tc) == Visitor(s, "visit_type1", <<tc.type1>>)

visit_type1(s, t1) ==
  IF IsSome(t1.operator) THEN Visitor(s, "visit_operator", <<t1, t1.operator[1]>>)
  ELSE Visitor(s, "visit_type2", <<t1.type2>>)

visit_operator(s, target, o) ==
  IF o.op = "RangeOp"
  THEN Visitor(s, "visit_range", <<target.type2, o.type2, o.is_inclusive>>)
  ELSE Visitor(s, "visit_control_operator", <<target.type2, o.ctrl, o.type2>>)

(* lines 514-529, 547-562, 592-603, 662-673: the text of a range error *)
range_error_str(kind, l, u, is_inclusive, value) ==
  "expected " \o kind \o " to be in range " \o ToString(l)
  \o (IF is_inclusive THEN " <= value <= " ELSE " < value < ") \o ToString(u)
  \o ", got " \o fmt_value(value)

(* lines 533-541, 565-573, 607-615, 677-685: the comparison with the bounds *)
outside_range(v, l, u, is_inclusive) ==
  IF is_inclusive THEN v < l \/ v > u ELSE v <= l \/ v >= u

(* lines 433-716; floats are held as multiples of 1/FloatScale *)
visit_range(s, lower, upper, is_inclusive) ==
  LET v == s.cbor
      l == lower.value
      u == upper.value
  IN IF v.k = "Array"
     THEN visit_array(s, v.v, "range", <<lower, upper, is_inclusive>>)
     ELSE CASE lower.t2 = "IntValue" ->
                 IF upper.t2 \in {"IntValue", "UintValue"}
                 THEN IF v.k = "Integer" /\ ~outside_range(v.v, l, u, is_inclusive) THEN s
                      ELSE add_error(s, range_error_str("integer", l, u, is_inclusive, v))
                 ELSE add_error(s, "invalid cddl range. upper value must be an integer type. got "
                                   \o fmt_type2(upper))
            [] lower.t2 = "UintValue" ->
                 IF upper.t2 = "UintValue"
                 THEN CASE v.k = "Integer" ->
                             IF outside_range(v.v, l, u, is_inclusive)
                             THEN add_error(s, range_error_str("uint", l, u, is_inclusive, v))
                             ELSE s
                        [] v.k = "Text" ->
                             IF s.ctrl = Some("SIZE")
                             THEN IF outside_range(Len(v.v), l, u, is_inclusive)
                                  THEN add_error(s, "expected \"" \o v.v
                                         \o "\" string length to be in the range " \o ToString(l)
                                         \o (IF is_inclusive THEN " <= value <= " ELSE " < value < ")
                                         \o ToString(u) \o ", got " \o ToString(Len(v.v)))
                                  ELSE s
                             ELSE add_error(s, "string value cannot be validated against a range without the .size control operator")
                        [] OTHER -> add_error(s, range_error_str("uint", l, u, is_inclusive, v))
                 ELSE add_error(s, "invalid cddl range. upper value must be a uint type. got "
                                   \o fmt_type2(upper))
            [] lower.t2 = "FloatValue" ->
                 IF upper.t2 = "FloatValue"
                 THEN IF v.k = "Float" /\ ~outside_range(v.v, l, u, is_inclusive) THEN s
                      ELSE add_error(s, range_error_str("float", l, u, is_inclusive, v))
                 ELSE add_error(s, "invalid cddl range. upper value must be a float type. got "
                                   \o fmt_type2(upper))
            [] OTHER ->
                 add_error(s, "invalid cddl range. upper and lower values must be either integers or floats")

(* lines 332-379: the entry count check of map equality *)
map_equality_fails(s, g) ==
  /\ s.is_ctrl_map_equality
  /\ IsSome(s.ctrl)
  /\ s.cbor.k = "Map"
  /\ s.ctrl[1] \in {"EQ", "NE"}
  /\ ~validate_entry_count(entry_counts_from_group(s.cddl, g.group_choices), Len(s.cbor.v))

visit_group(s, g) ==
  LET s0 == IF Len(g.group_choices) > 1
            THEN [s EXCEPT !.is_multi_group_choice = TRUE] ELSE s
  IN IF map_equality_fails(s0, g)
     THEN add_entry_count_errors(s0, entry_counts_from_group(s0.cddl, g.group_choices),
                                 Len(s0.cbor.v))
     ELSE LET s1 == [s0 EXCEPT !.is_ctrl_map_equality = FALSE]
          IN group_choices_loop(s1, g.group_choices, 1, Len(s1.errors))

group_choices_loop(s, gcs, i, initial_error_count) ==
  IF i > Len(gcs) THEN s
  ELSE LET error_count == Len(s.errors)
           s1 == Visitor(s, "visit_group_choice", <<gcs[i]>>)
       IN IF Failed(s1) THEN s1
          ELSE IF Len(s1.errors) = error_count THEN truncate(s1, initial_error_count)
          ELSE group_choices_loop(s1, gcs, i + 1, initial_error_count)

visit_group_choice(s, gc) ==
  IF s.is_group_to_choice_enum
  THEN type_choices_loop(s, type_choices_from_group_choice(s.cddl, gc), 1, Len(s.errors))
  ELSE group_entries_loop(s, gc.group_entries, 1)

group_entries_loop(s, ges, i) ==
  IF i > Len(ges) THEN s
  ELSE LET s1 == Visitor([s EXCEPT !.group_entry_idx = Some(i - 1)], "visit_group_entry", <<ges[i]>>)
       IN IF Failed(s1) THEN s1 ELSE group_entries_loop(s1, ges, i + 1)

(* walk_group_entry *)
visit_group_entry(s, e) ==
  CASE e.ge = "ValueMemberKey" -> Visitor(s, "visit_value_member_key_entry", <<e>>)
    [] e.ge = "TypeGroupname" -> Visitor(s, "visit_type_groupname_entry", <<e>>)
    [] e.ge = "InlineGroup" -> Visitor(s, "visit_inline_group_entry", <<e>>)

(* walk_inline_group_entry *)
visit_inline_group_entry(s, e) ==
  Visitor(IF IsSome(e.occur) THEN visit_occurrence(s, e.occur[1]) ELSE s, "visit_group", <<e.group>>)

(* `self.ctrl = t; self.visit_type2(controller)?; self.ctrl = None` *)
with_ctrl(s, t, controller) ==
  LET s1 == Visitor([s EXCEPT !.ctrl = t], "visit_type2", <<controller>>)
  IN IF Failed(s1) THEN s1 ELSE [s1 EXCEPT !.ctrl = None]

(* lines 747-755 and 784-792 *)
with_map_equality(s, t, controller) ==
  LET s1 == Visitor([s EXCEPT !.ctrl = t, !.is_ctrl_map_equality = TRUE], "visit_type2", <<controller>>)
  IN IF Failed(s1) THEN s1
     ELSE [s1 EXCEPT !.ctrl = None, !.is_ctrl_map_equality = FALSE]

visit_control_operator(s, target, ctrl, controller) ==
  LET t == lookup_control_from_str(ctrl)
      is_typename == target.t2 = "Typename"
  IN CASE t = Some("EQ") ->
            CASE is_typename ->
                   IF is_ident_string_data_type(s.cddl, target.ident)
                      \/ is_ident_numeric_data_type(s.cddl, target.ident)
                   THEN Visitor(s, "visit_type2", <<controller>>) ELSE s
              [] target.t2 = "Array" ->
                   IF s.cbor.k = "Array"
                   THEN LET s1 == Visitor(
                                    [s EXCEPT !.entry_counts =
                                       Some(entry_counts_from_group(s.cddl,
                                              target.group.group_choices))], "visit_type2", <<controller>>)
                        IN IF Failed(s1) THEN s1 ELSE [s1 EXCEPT !.entry_counts = None]
                   ELSE s
              [] target.t2 = "Map" ->
                   IF s.cbor.k = "Map" THEN with_map_equality(s, t, controller) ELSE s
              [] OTHER ->
                   add_error(s, "target for .eq operator must be a string, numerical, array or map data type, got "
                                \o fmt_type2(target))
       [] t = Some("NE") ->
            CASE is_typename ->
                   IF is_ident_string_data_type(s.cddl, target.ident)
                      \/ is_ident_numeric_data_type(s.cddl, target.ident)
                   THEN with_ctrl(s, t, controller) ELSE s
              [] target.t2 = "Array" ->
                   IF s.cbor.k = "Array" THEN with_ctrl(s, t, controller) ELSE s
              [] target.t2 = "Map" ->
                   IF s.cbor.k = "Map" THEN with_map_equality(s, t, controller) ELSE s
              [] OTHER ->
                   add_error(s, "target for .ne operator must be a string, numerical, array or map data type, got "
                                \o fmt_type2(target))
       [] t \in {Some("LT"), Some("GT"), Some("GE"), Some("LE")} ->
            IF is_typename /\ is_ident_numeric_data_type(s.cddl, target.ident)
            THEN with_ctrl(s, t, controller)
            ELSE add_error(s, "target for .lt, .gt, .ge or .le operator must be a numerical data type, got "
                              \o fmt_type2(target))
       [] t = Some("SIZE") ->
            IF is_typename /\ (is_ident_string_data_type(s.cddl, target.ident)
                               \/ is_ident_uint_data_type(s.cddl, target.ident))
            THEN with_ctrl(s, t, controller)
            ELSE add_error(s, "target for .size must a string or uint data type, got "
                              \o fmt_type2(target))
       [] t = Some("AND") ->
            LET s1 == Visitor([s EXCEPT !.ctrl = t], "visit_type2", <<target>>)
                s2 == Visitor(s1, "visit_type2", <<controller>>)
            IN IF Failed(s1) THEN s1
               ELSE IF Failed(s2) THEN s2
               ELSE [s2 EXCEPT !.ctrl = None]
       [] t = Some("WITHIN") ->
            LET error_count == Len(s.errors)
                s1 == Visitor([s EXCEPT !.ctrl = t], "visit_type2", <<target>>)
                no_errors == Len(s1.errors) = error_count
                s2 == Visitor(s1, "visit_type2", <<controller>>)
                s3 == IF no_errors /\ Len(s2.errors) > error_count
                      THEN add_error(truncate(s2, error_count),
                             "expected type " \o fmt_type2(target) \o " .within type "
                             \o fmt_type2(controller) \o ", got " \o fmt_value(s2.cbor))
                      ELSE s2
            IN IF Failed(s1) THEN s1
               ELSE IF Failed(s2) THEN s2
               ELSE [s3 EXCEPT !.ctrl = None]
       [] t = Some("DEFAULT") ->
            LET error_count == Len(s.errors)
                s1 == Visitor([s EXCEPT !.ctrl = t], "visit_type2", <<target>>)
                s2 == IF Len(s1.errors) # error_count
                      THEN LET taken == [s1 EXCEPT !.occurrence = None]
                           IN IF OccurIs(s1, {"Optional"})
                              THEN add_error(taken, "expected default value "
                                     \o fmt_type2(controller) \o ", got " \o fmt_value(s1.cbor))
                              ELSE taken
                      ELSE s1
            IN IF Failed(s1) THEN s1 ELSE [s2 EXCEPT !.ctrl = None]
       [] t \in {Some("REGEXP"), Some("PCRE")} ->
            LET s0 == [s EXCEPT !.ctrl = t]
                s1 == IF is_typename /\ is_ident_string_data_type(s.cddl, target.ident)
                      THEN IF s.cbor.k = "Text" THEN Visitor(s0, "visit_type2", <<controller>>)
                           ELSE add_error(s0, ".regexp/.pcre control can only be matched against cbor string, got "
                                              \o fmt_value(s.cbor))
                      ELSE add_error(s0, ".regexp/.pcre contro9l can only be matched against string data type, got "
                                         \o fmt_type2(target))
            IN IF Failed(s1) THEN s1 ELSE [s1 EXCEPT !.ctrl = None]
       [] OTHER -> add_error(s, "unsupported control operator " \o ctrl)

(* lines 1171-1199: a reference with generic arguments *)
push_generic_args(s, ident, ga, rule) ==
  IF \E i \in 1..Len(s.generic_rules) : s.generic_rules[i].name = ident
  THEN LET i == CHOOSE j \in 1..Len(s.generic_rules) :
                  /\ s.generic_rules[j].name = ident
                  /\ \A h \in 1..(j - 1) : s.generic_rules[h].name # ident
       IN [s EXCEPT !.generic_rules[i].args = @ \o ga]
  ELSE IF IsSome(generic_params_from_rule(rule))
       THEN [s EXCEPT !.generic_rules =
               Append(@, [name |-> ident, params |-> generic_params_from_rule(rule)[1],
                          args |-> ga])]
       ELSE s

unexpected_key_reason(key) == "unexpected key " \o fmt_value(key)

(* lines 946-954 *)
RECURSIVE unexpected_keys(_, _, _)
unexpected_keys(s, m, i) ==
  IF i > Len(m) THEN s
  ELSE unexpected_keys(
         IF IsSome(s.validated_keys) /\ ~contains(s.validated_keys[1], m[i][1])
         THEN add_error(s, unexpected_key_reason(m[i][1])) ELSE s,
         m, i + 1)

tag_mismatch_never(tag, actual_tag) == FALSE

(* lines 1259-1273 *)
tag_mismatch(tag, actual_tag) ==
  \/ IsSome(tag) /\ tag[1] # actual_tag
  \/ tag = None /\ actual_tag > 0

tagged_data_reason(tag, t, value) ==
  IF IsSome(tag)
  THEN "expected tagged data #6." \o ToString(tag[1]) \o "(" \o fmt_type(t) \o "), got "
       \o fmt_value(value)
  ELSE "expected tagged data #6(" \o fmt_type(t) \o "), got " \o fmt_value(value)

major_type_reason(mt, constraint, value) ==
  "expected major type " \o ToString(mt) \o " with constraint "
  \o (IF IsSome(constraint) THEN "Some(" \o ToString(constraint[1]) \o ")" ELSE "None")
  \o ", got " \o fmt_value(value)

(* lines 1303-1450 *)
visit_data_major_type(s, mt, constraint) ==
  LET v == s.cbor
      wrong == add_error(s, major_type_reason(mt, constraint, v))
      sized(n, len) ==
        IF mt # n THEN wrong
        ELSE IF constraint = None \/ constraint[1] = len THEN s
        ELSE add_error(s, "expected type with constraint " \o ToString(constraint[1])
                          \o " (#" \o ToString(mt) \o "), got " \o fmt_value(v))
  IN CASE v.k = "Integer" ->
            CASE mt = 0 ->
                   IF IsSome(constraint)
                   THEN IF v.v = constraint[1] /\ v.v >= 0 THEN s
                        ELSE add_error(s, "expected uint data type with constraint "
                                          \o ToString(constraint[1]) \o ", got " \o fmt_value(v))
                   ELSE IF v.v < 0
                        THEN add_error(s, "expected uint data type (#0), got " \o fmt_value(v))
                        ELSE s
              [] mt = 1 ->
                   IF IsSome(constraint)
                   THEN IF v.v = 0 - constraint[1] THEN s
                        ELSE add_error(s, "expected nint type with constraint "
                                          \o ToString(constraint[1]) \o ", got " \o fmt_value(v))
                   ELSE IF v.v >= 0
                        THEN add_error(s, "expected nint data type (#1), got " \o fmt_value(v))
                        ELSE s
              [] OTHER -> wrong
       [] v.k = "Bytes" -> sized(2, Len(v.v))
       [] v.k = "Text" -> sized(3, Len(v.v))
       [] v.k = "Array" -> sized(4, Len(v.v))
       [] v.k = "Map" -> sized(5, Len(v.v))
       [] v.k = "Float" ->
            IF mt # 7 THEN wrong
            ELSE IF IsSome(constraint) THEN abort(s) ELSE s
       [] OTHER ->
            IF IsSome(constraint)
            THEN add_error(s, "expected major type #" \o ToString(mt) \o "."
                              \o ToString(constraint[1]) \o ", got " \o fmt_value(v))
            ELSE add_error(s, "expected major type #" \o ToString(mt) \o ", got " \o fmt_value(v))

visit_type2(s, t2) ==
  CASE t2.t2 = "TextValue" -> Visitor(s, "visit_value", <<TEXT(t2.value)>>)
    [] t2.t2 = "Map" ->
         CASE s.cbor.k = "Map" ->
                IF s.is_member_key
                THEN member_key_map_loop(s, s.cbor.v, 1, t2, s.cbor_location, FALSE)
                ELSE LET s1 == Visitor(s, "visit_group", <<t2.group>>)
                         s2 == IF s1.values_to_validate = None
                               THEN unexpected_keys(s1, s.cbor.v, 1) ELSE s1
                     IN IF Failed(s1) THEN s1
                        ELSE [s2 EXCEPT !.is_cut_present = FALSE, !.cut_value = None]
           [] s.cbor.k = "Array" ->
                IF s.is_member_key THEN s ELSE visit_array(s, s.cbor.v, "group", t2.group)
           [] OTHER ->
                add_error(s, "expected map object " \o fmt_type2(t2) \o ", got "
                             \o fmt_value(s.cbor))
    [] t2.t2 = "Array" ->
         CASE s.cbor.k = "Array" ->
                IF /\ Len(t2.group.group_choices) = 1
                   /\ t2.group.group_choices[1].group_entries = <<>>
                   /\ s.cbor.v # <<>>
                   /\ s.ctrl # Some("NE")
                THEN add_error(s, "expected empty array, got " \o fmt_value(s.cbor))
                ELSE LET s1 == Visitor(
                                 [s EXCEPT !.entry_counts =
                                    Some(entry_counts_from_group(s.cddl, t2.group.group_choices))], "visit_group", <<t2.group>>)
                     IN IF Failed(s1) THEN s1 ELSE [s1 EXCEPT !.entry_counts = None]
           [] s.cbor.k = "Map" /\ s.is_member_key ->
                member_key_map_loop(
                  [s EXCEPT !.entry_counts =
                     Some(entry_counts_from_group(s.cddl, t2.group.group_choices))],
                  s.cbor.v, 1, t2, s.cbor_location, TRUE)
           [] OTHER -> add_error(s, "expected array type, got " \o fmt_value(s.cbor))
    [] t2.t2 = "ChoiceFromInlineGroup" ->
         LET s1 == Visitor([s EXCEPT !.is_group_to_choice_enum = TRUE], "visit_group", <<t2.group>>)
         IN IF Failed(s1) THEN s1 ELSE [s1 EXCEPT !.is_group_to_choice_enum = FALSE]
    [] t2.t2 = "Typename" ->
         IF IsSome(t2.generic_args) /\ IsSome(rule_from_ident(s.cddl, t2.ident))
         THEN LET rule == rule_from_ident(s.cddl, t2.ident)[1]
                  s1 == push_generic_args(s, t2.ident, t2.generic_args[1], rule)
                  child == [new(s1.cddl, s1.cbor) EXCEPT
                              !.generic_rules = s1.generic_rules,
                              !.eval_generic_rule = Some(t2.ident),
                              !.overflow_checks = s1.overflow_checks,
                              !.frames = s1.frames,
                              !.is_multi_type_choice = s1.is_multi_type_choice]
              IN absorb(s1, Visitor(child, "visit_rule", <<rule>>))
         ELSE Visitor(s, "visit_identifier", <<t2.ident>>)
    [] t2.t2 = "IntValue" -> Visitor(s, "visit_value", <<INT(t2.value)>>)
    [] t2.t2 = "UintValue" -> Visitor(s, "visit_value", <<UINT(t2.value)>>)
    [] t2.t2 = "FloatValue" -> Visitor(s, "visit_value", <<FLOAT(t2.value)>>)
    [] t2.t2 = "ParenthesizedType" -> Visitor(s, "visit_type", <<t2.pt>>)
    [] t2.t2 = "TaggedData" ->
         IF s.cbor.k = "Tag"
         THEN IF tag_mismatch(t2.tag, s.cbor.v[1])
              THEN add_error(s, tagged_data_reason(t2.tag, t2.t, s.cbor))
              ELSE absorb(s, Visitor(value_validator(s, s.cbor.v[2]), "visit_type", <<t2.t>>))
         ELSE add_error(s, tagged_data_reason(t2.tag, t2.t, s.cbor))
    [] t2.t2 = "DataMajorType" -> visit_data_major_type(s, t2.mt, t2.constraint)
    [] t2.t2 = "Any" -> s
    [] OTHER -> add_error(s, "unsupported data type for validating cbor, got " \o fmt_type2(t2))

(* lines 915-938 and 1077-1103: a map or array type as member key *)
member_key_map_loop(s, m, i, t2, current_location, is_array) ==
  IF i > Len(m) THEN (IF is_array THEN [s EXCEPT !.entry_counts = None] ELSE s)
  ELSE LET c0 == value_validator(s, m[i][1])
           c1 == IF is_array THEN [c0 EXCEPT !.entry_counts = s.entry_counts] ELSE c0
           child == Visitor(c1, "visit_type2", <<t2>>)
       IN IF Failed(child) THEN absorb(s, child)
          ELSE IF child.errors = <<>>
          THEN push_validated_key(
                 [s EXCEPT !.object_value = Some(m[i][2]),
                           !.cbor_location = current_location],
                 m[i][1])
          ELSE member_key_map_loop(absorb(s, child), m, i + 1, t2, current_location, is_array)

(* lines 1463-1478: the argument bound to a generic parameter *)
generic_arg_of(s, ident) ==
  IF s.eval_generic_rule = None THEN None
  ELSE LET name == s.eval_generic_rule[1]
           grs == s.generic_rules
       IN IF ~\E i \in 1..Len(grs) : grs[i].name = name THEN None
          ELSE LET gr == grs[CHOOSE j \in 1..Len(grs) :
                               /\ grs[j].name = name
                               /\ \A h \in 1..(j - 1) : grs[h].name # name]
                   hits == {i \in 1..Len(gr.params) :
                              gr.params[i] = ident /\ i <= Len(gr.args)}
               IN IF hits = {} THEN None
                  ELSE Some(gr.args[CHOOSE i \in hits : \A j \in hits : i <= j])

(* key kind selected by a typename member key under `*` / `+`: lines 1658-1854 *)
occurrence_key_kind(c, ident) ==
  CASE is_ident_string_data_type(c, ident) -> Some("Text")
    [] is_ident_integer_data_type(c, ident) -> Some("Integer")
    [] is_ident_bool_data_type(c, ident) -> Some("Bool")
    [] is_ident_byte_string_data_type(c, ident) -> Some("Bytes")
    [] is_ident_null_data_type(c, ident) -> Some("Null")
    [] is_ident_float_data_type(c, ident) -> Some("Float")
    [] OTHER -> None

(* key kind searched by a typename member key without `*` / `+`:
   lines 1858-1941 (line 1930 searches a Null key for a float type) *)
member_key_kind(c, ident) ==
  CASE is_ident_string_data_type(c, ident) -> Some("Text")
    [] is_ident_integer_data_type(c, ident) -> Some("Integer")
    [] is_ident_bool_data_type(c, ident) -> Some("Bool")
    [] is_ident_null_data_type(c, ident) -> Some("Null")
    [] is_ident_byte_string_data_type(c, ident) -> Some("Bytes")
    [] is_ident_float_data_type(c, ident) -> Some("Null")
    [] OTHER -> None

(* the filter_map of lines 1660-1681: <<values, errors>> *)
RECURSIVE collect_values_to_validate(_, _, _, _)
collect_values_to_validate(s, m, kind, ident) ==
  IF m = <<>> THEN <<(<<>>), (<<>>)>>
  ELSE LET key == Head(m)[1]
           val == Head(m)[2]
           rest == collect_values_to_validate(s, Tail(m), kind, ident)
           e == "key of type " \o ident \o " required, got " \o fmt_value(key)
       IN IF IsSome(s.validated_keys) /\ contains(s.validated_keys[1], key) THEN rest
          ELSE IF key.k = kind THEN <<(<<val>>) \o rest[1], rest[2]>>
          ELSE <<rest[1], (<<e>>) \o rest[2]>>

expected_type_reason(ident, value) ==
  "expected type " \o ident \o ", got " \o fmt_value(value)

cut_reason(cut_value, ident, value) ==
  "cut present for member key " \o fmt_token_value(cut_value) \o ". expected type " \o ident
  \o ", got " \o fmt_value(value)

visit_identifier(s, ident) ==
  LET c == s.cddl
      v == s.cbor
      mismatch == add_error(s, expected_type_reason(ident, v))
  IN IF IsSome(generic_arg_of(s, ident)) THEN Visitor(s, "visit_type1", <<generic_arg_of(s, ident)[1]>>)
     ELSE IF IsSome(rule_from_ident(c, ident)) THEN Visitor(s, "visit_rule", <<rule_from_ident(c, ident)[1]>>)
     ELSE IF is_ident_any_type(c, ident) THEN s
     ELSE
     CASE v.k = "Null" /\ is_ident_null_data_type(c, ident) -> s
       [] v.k = "Bytes" /\ is_ident_byte_string_data_type(c, ident) -> s
       [] v.k = "Bool" ->
            IF is_ident_bool_data_type(c, ident) \/ ident_matches_bool_value(c, ident, v.v)
            THEN s ELSE mismatch
       [] v.k = "Integer" ->
            IF is_ident_uint_data_type(c, ident) THEN (IF v.v < 0 THEN mismatch ELSE s)
            ELSE IF is_ident_integer_data_type(c, ident) THEN s
            ELSE IF is_ident_time_data_type(c, ident) THEN s
            ELSE mismatch
       [] v.k = "Float" ->
            IF is_ident_float_data_type(c, ident) THEN s
            ELSE IF is_ident_time_data_type(c, ident) THEN s
            ELSE mismatch
       [] v.k = "Text" ->
            IF is_ident_uri_data_type(c, ident)
            THEN IF uri_parses(v.v) THEN s
                 ELSE add_error(s, "expected URI data type, decoding error")
            ELSE IF is_ident_b64url_data_type(c, ident)
            THEN IF b64url_decodes(v.v) THEN s
                 ELSE add_error(s, "expected base64 URL data type, decoding error")
            ELSE IF is_ident_tdate_data_type(c, ident)
            THEN IF rfc3339_parses(v.v) THEN s
                 ELSE add_error(s, "expected tdate data type, decoding error")
            ELSE IF is_ident_string_data_type(c, ident) THEN s
            ELSE mismatch
       [] v.k = "Array" ->
            IF s.is_member_key THEN s ELSE visit_array(s, v.v, "ident", ident)
       [] v.k = "Map" ->
            IF OccurIs(s, {"OneOrMore"}) /\ v.v = <<>>
            THEN add_error(s, "map cannot be empty, one or more entries with key type "
                              \o ident \o " required")
            ELSE IF OccurIs(s, {"ZeroOrMore", "OneOrMore"})
                    /\ IsSome(occurrence_key_kind(c, ident))
            THEN LET r == collect_values_to_validate(s, v.v,
                            occurrence_key_kind(c, ident)[1], ident)
                 IN add_errors([s EXCEPT !.values_to_validate = Some(r[1])], r[2])
            ELSE IF IsSome(member_key_kind(c, ident))
            THEN LET hit == find_kind(v.v, member_key_kind(c, ident)[1])
                 IN IF IsSome(hit)
                    THEN push_validated_key(
                           [s EXCEPT !.object_value = Some(hit[1][2]),
                                     !.cbor_location = @ \o "/" \o fmt_value(hit[1][2])],
                           hit[1][1])
                    ELSE add_error(s, "map requires entry key of type " \o ident)
            ELSE Visitor(s, "visit_value", <<TEXT(ident)>>)
       [] OTHER ->
            IF IsSome(s.cut_value)
            THEN add_error([s EXCEPT !.cut_value = None], cut_reason(s.cut_value[1], ident, v))
            ELSE mismatch

(* lines 1575-1643, and the same block at 440-511, 966-1037 and 2175-2243:
   an array value against a node of the given kind *)
visit_item(s, kind, node) ==
  CASE kind = "ident" -> Visitor(s, "visit_identifier", <<node>>)
    [] kind = "value" -> Visitor(s, "visit_value", <<node>>)
    [] kind = "group" -> Visitor(s, "visit_group", <<node>>)
    [] kind = "range" -> Visitor(s, "visit_range", node)

array_item_reason(kind, node) ==
  CASE kind = "ident" -> "expected type " \o node
    [] kind = "value" -> "expected value " \o fmt_token_value(node)
    [] kind = "group" -> "expected map object " \o fmt_group(node)
    [] kind = "range" ->
         "expected range lower " \o fmt_type2(node[1]) \o " upper " \o fmt_type2(node[2])
         \o " inclusive " \o (IF node[3] THEN "true" ELSE "false")

array_index_reason(kind, node, idx) ==
  IF kind = "range" THEN "expected array item at index " \o ToString(idx)
  ELSE array_item_reason(kind, node) \o " at index " \o ToString(idx)

iter_items_loop(s, a, i, kind, node) ==
  IF i > Len(a) THEN s
  ELSE LET s1 == absorb(s, visit_item(item_validator(s, a[i], i - 1), kind, node))
       IN IF Failed(s1) THEN s1 ELSE iter_items_loop(s1, a, i + 1, kind, node)

visit_array(s, a, kind, node) ==
  LET allow_empty_array == OccurIs(s, {"Optional"})
      r == validate_array_occurrence(s.occurrence, a)
      iter_items == r[2]
      takes == ~iter_items /\ ~allow_empty_array /\ IsSome(s.entry_counts)
      s1 == IF takes THEN [s EXCEPT !.entry_counts = None] ELSE s
  IN IF r[1] = "Err" THEN add_error(s, r[2])
     ELSE IF takes /\ ~validate_entry_count(s.entry_counts[1], Len(a))
     THEN add_entry_count_errors(s1, s.entry_counts[1], Len(a))
     ELSE IF iter_items THEN iter_items_loop(s1, a, 1, kind, node)
     ELSE IF IsSome(s1.group_entry_idx)
     THEN LET idx == s1.group_entry_idx[1]
              s2 == [s1 EXCEPT !.group_entry_idx = None]
          IN IF idx < Len(a)
             THEN absorb(s2, visit_item(item_validator(s2, a[idx + 1], idx), kind, node))
             ELSE IF ~allow_empty_array
             THEN add_error(s2, array_index_reason(kind, node, idx))
             ELSE s2
     ELSE add_error(s1, array_item_reason(kind, node) \o ", got " \o fmt_value(s.cbor))

values_to_validate_loop(s, values, i, entry, current_location) ==
  IF i > Len(values) THEN s
  ELSE LET child == Visitor(value_validator(s, values[i]), "visit_type", <<entry.entry_type>>)
           s1 == absorb([s EXCEPT !.cbor_location = current_location], child)
           s2 == IF IsSome(entry.occur) THEN [s1 EXCEPT !.occurrence = None] ELSE s1
       IN IF Failed(child) THEN absorb(s, child)
          ELSE values_to_validate_loop(s2, values, i + 1, entry, current_location)

visit_value_member_key_entry(s, entry) ==
  LET s0 == IF IsSome(entry.occur) THEN visit_occurrence(s, entry.occur[1]) ELSE s
      current_location == s0.cbor_location
      error_count == Len(s0.errors)
      k1 == IF IsSome(entry.member_key)
            THEN Visitor([s0 EXCEPT !.is_member_key = TRUE], "visit_memberkey", <<entry.member_key[1]>>)
            ELSE s0
      s1 == IF IsSome(entry.member_key) THEN [k1 EXCEPT !.is_member_key = FALSE] ELSE s0
  IN IF Failed(k1) THEN k1
     ELSE IF Len(s1.errors) # error_count
     THEN [s1 EXCEPT !.advance_to_next_entry = TRUE]
     ELSE IF IsSome(s1.values_to_validate)
     THEN values_to_validate_loop(s1, s1.values_to_validate[1], 1, entry, current_location)
     ELSE IF IsSome(s1.object_value)
     THEN LET s2 == [s1 EXCEPT !.object_value = None]
              child == Visitor(value_validator(s2, s1.object_value[1]), "visit_type", <<entry.entry_type>>)
              s3 == absorb([s2 EXCEPT !.cbor_location = current_location], child)
          IN IF Failed(child) THEN absorb(s2, child)
             ELSE IF IsSome(entry.occur) THEN [s3 EXCEPT !.occurrence = None]
             ELSE s3
     ELSE IF ~s1.advance_to_next_entry THEN Visitor(s1, "visit_type", <<entry.entry_type>>)
     ELSE s1

(* walk_type_groupname_entry: the occurrence, then the name *)
visit_type_groupname_entry(s, entry) ==
  LET s0 == [s EXCEPT !.type_group_name_entry = Some(entry.name)]
      s1 == IF IsSome(entry.occur) THEN visit_occurrence(s0, entry.occur[1]) ELSE s0
      s2 == Visitor(s1, "visit_identifier", <<entry.name>>)
  IN IF Failed(s2) THEN s2 ELSE [s2 EXCEPT !.type_group_name_entry = None]

(* walk_memberkey *)
visit_memberkey(s, mk) ==
  CASE mk.mk = "Type1" -> Visitor([s EXCEPT !.is_cut_present = mk.is_cut], "visit_type1", <<mk.t1>>)
    [] mk.mk = "Bareword" -> Visitor(s, "visit_identifier", <<mk.ident>>)
    [] mk.mk = "Value" -> Visitor(s, "visit_value", <<mk.value>>)

(* compare_ok with .lt admitting equality *)
compare_ok_loose(ctrl, i, v) ==
  CASE ctrl = Some("NE") -> i # v
    [] ctrl = Some("LT") -> i <= v
    [] ctrl = Some("LE") -> i <= v
    [] ctrl = Some("GT") -> i > v
    [] ctrl = Some("GE") -> i >= v
    [] OTHER -> FALSE
(* the guards of lines 2052-2056 / 2072-2076 / 2097-2101 *)
compare_ok(ctrl, i, v) ==
  CASE ctrl = Some("NE") -> i # v
    [] ctrl = Some("LT") -> i < v
    [] ctrl = Some("LE") -> i <= v
    [] ctrl = Some("GT") -> i > v
    [] ctrl = Some("GE") -> i >= v
    [] OTHER -> FALSE

RECURSIVE pow256(_)
pow256(n) == IF n = 0 THEN 1 ELSE 256 * pow256(n - 1)

(* 256i128.pow(n) exceeds i128::MAX = 2^127 - 1 exactly when 8n >= 127 *)
I128Bits == 128
pow_overflows(n) == 8 * n >= I128Bits - 1

(* the guard  i < 256i128.pow(v as u32) : a wrapped power is 2^(8n) mod 2^128 = 0;
   the integers of the model are below 2^31, hence below every power from
   256^4 on that fits *)
lt_pow256(i, n) ==
  IF pow_overflows(n) THEN i < 0
  ELSE IF 8 * n >= 31 THEN TRUE ELSE i < pow256(n)

expected_value_reason(ctrl, value, got) ==
  IF IsSome(ctrl)
  THEN "expected value " \o fmt_token(ctrl[1]) \o " " \o fmt_token_value(value) \o ", got " \o got
  ELSE "expected value " \o fmt_token_value(value) \o ", got " \o got

expected_reason(value, got) == "expected " \o fmt_token_value(value) \o ", got " \o got

missing_key_reason(value) ==
  "object missing key: \"" \o fmt_token_value(value) \o "\""

(* the Option<String> computed by the scalar arms of visit_value *)
scalar_value_error(s, value) ==
  LET v == s.cbor
      ctrl == s.ctrl
  IN CASE v.k = "Integer" ->
            IF value.tv \in {"INT", "UINT"}
            THEN IF \/ compare_ok(ctrl, v.v, value.v)
                    \/ ctrl = None /\ v.v = value.v
                    \/ value.tv = "UINT" /\ ctrl = Some("SIZE") /\ lt_pow256(v.v, value.v)
                 THEN None
                 ELSE Some(expected_value_reason(ctrl, value, ToString(v.v)))
            ELSE Some(expected_reason(value, ToString(v.v)))
       [] v.k = "Float" ->
            IF value.tv = "FLOAT"
            THEN IF \/ compare_ok(ctrl, v.v, value.v)
                    \/ ctrl = None /\ v.v = value.v
                 THEN None
                 ELSE Some(expected_value_reason(ctrl, value, ToString(v.v)))
            ELSE Some(expected_reason(value, ToString(v.v)))
       [] v.k = "Text" ->
            CASE value.tv = "TEXT" ->
                   IF ctrl = Some("NE")
                   THEN IF v.v # value.v THEN None
                        ELSE Some("expected " \o fmt_token_value(value) \o " .ne to \"" \o v.v \o "\"")
                   ELSE IF ctrl \in {Some("REGEXP"), Some("PCRE")}
                   THEN IF regex_is_match(json_unescape(value.v), v.v) THEN None
                        ELSE Some("expected \"" \o v.v \o "\" to match regex \"" \o value.v \o "\"")
                   ELSE IF v.v = value.v THEN None
                        ELSE IF IsSome(ctrl)
                        THEN Some(expected_value_reason(ctrl, value, "\"" \o v.v \o "\""))
                        ELSE Some("expected value " \o fmt_token_value(value)
                                  \o " got \"" \o v.v \o "\"")
              [] value.tv = "UINT" ->
                   IF ctrl = Some("SIZE")
                   THEN IF Len(v.v) = value.v THEN None
                        ELSE Some("expected \"" \o v.v \o "\" .size " \o ToString(value.v)
                                  \o ", got " \o ToString(Len(v.v)))
                   ELSE Some(expected_reason(value, v.v))
              [] OTHER -> Some(expected_reason(value, "\"" \o v.v \o "\""))
       [] OTHER -> Some(expected_reason(value, fmt_value(v)))

visit_value(s, value) ==
  LET v == s.cbor
  IN CASE v.k = "Array" ->
            IF s.is_member_key THEN s ELSE visit_array(s, v.v, "value", value)
       [] v.k = "Map" ->
            LET s0 == IF s.is_cut_present THEN [s EXCEPT !.cut_value = Some(value)] ELSE s
                key == token_value_into_cbor_value(value)
                taken == [s0 EXCEPT !.occurrence = None]
            IN IF value.tv = "TEXT" /\ value.v = "any" THEN s0
               ELSE IF IsSome(map_get(v.v, key))
               THEN push_validated_key(
                      [s0 EXCEPT !.object_value = map_get(v.v, key),
                                 !.cbor_location = @ \o "/" \o fmt_token_value(value)],
                      key)
               ELSE IF OccurIs(s0, {"Optional", "ZeroOrMore"})
               THEN [taken EXCEPT !.advance_to_next_entry = TRUE]
               ELSE IF s0.ctrl = Some("NE") THEN taken
               ELSE add_error(taken, missing_key_reason(value))
       [] v.k = "Text" /\ value.tv = "TEXT" /\ s.ctrl \in {Some("REGEXP"), Some("PCRE")}
          /\ ~json_string_parses(value.v) ->
            raise(s, "invalid escape")
       [] v.k = "Text" /\ value.tv = "TEXT" /\ s.ctrl \in {Some("REGEXP"), Some("PCRE")}
          /\ ~regex_compiles(json_unescape(value.v)) ->
            raise(s, "regex parse error")
       [] v.k = "Integer" /\ value.tv = "UINT" /\ s.ctrl = Some("SIZE")
          /\ pow_overflows(value.v) /\ s.overflow_checks ->
            abort(s)
       [] OTHER ->
            IF IsSome(scalar_value_error(s, value))
            THEN add_error(s, scalar_value_error(s, value)[1])
            ELSE s

(* ---------------- CBORValidator::validate ---------------- *)
(* impl Visitor for CBORValidator: a call of a method of the trait on self *)
dispatch(s, method, a) ==
  CASE method = "visit_rule" -> visit_rule(s, a[1])
    [] method = "visit_type_rule" -> visit_type_rule(s, a[1])
    [] method = "visit_group_rule" -> visit_group_rule(s, a[1])
    [] method = "visit_type" -> visit_type(s, a[1])
    [] method = "visit_type_choice" -> visit_type_choice(s, a[1])
    [] method = "visit_type1" -> visit_type1(s, a[1])
    [] method = "visit_operator" -> visit_operator(s, a[1], a[2])
    [] method = "visit_range" -> visit_range(s, a[1], a[2], a[3])
    [] method = "visit_group" -> visit_group(s, a[1])
    [] method = "visit_group_choice" -> visit_group_choice(s, a[1])
    [] method = "visit_group_entry" -> visit_group_entry(s, a[1])
    [] method = "visit_inline_group_entry" -> visit_inline_group_entry(s, a[1])
    [] method = "visit_control_operator" -> visit_control_operator(s, a[1], a[2], a[3])
    [] method = "visit_type2" -> visit_type2(s, a[1])
    [] method = "visit_identifier" -> visit_identifier(s, a[1])
    [] method = "visit_value_member_key_entry" -> visit_value_member_key_entry(s, a[1])
    [] method = "visit_type_groupname_entry" -> visit_type_groupname_entry(s, a[1])
    [] method = "visit_memberkey" -> visit_memberkey(s, a[1])
    [] method = "visit_value" -> visit_value(s, a[1])

(* every visitor call takes a frame of the call stack; nothing in the
   validator limits their number *)
Visitor(s, method, a) ==
  IF s.frames >= StackFrames THEN abort(s)
  ELSE [dispatch([s EXCEPT !.frames = @ + 1], method, a) EXCEPT !.frames = s.frames]

(* lines 202-203: the rule the loop visits as root *)
is_root_rule_any_type(r) == r.kind = "Type"

is_root_rule(r) == r.kind = "Type" /\ r.generic_params = None

(* lines 200-210: <<validator afterwards, indices of the rules visited>> *)
RECURSIVE visit_root(_, _, _)
visit_root(s, rules, i) ==
  IF i > Len(rules) THEN <<s, <<>>>>
  ELSE IF is_root_rule(rules[i]) THEN <<visit_type_rule(s, rules[i]), <<i>>>>
  ELSE visit_root(s, rules, i + 1)

Ok == [status |-> "Ok", errors |-> <<>>]
Err(list) == [status |-> "Err", errors |-> list]
Panic == [status |-> "panic", errors |-> <<>>]

(* lines 212-216: the value validate returns *)
result_of(s) ==
  IF s.aborted THEN Panic
  ELSE IF IsSome(s.hard) THEN Err(<<s.hard[1]>>)
  ELSE IF s.errors # <<>> THEN Err(s.errors)
  ELSE Ok

outcome(r) == [state |-> r[1], roots |-> r[2], result |-> result_of(r[1])]

(* lines 199-217 *)
validate(s) == outcome(visit_root([s EXCEPT !.hard = None], s.cddl, 1))

(* ---------------- validation/json/controls.rs ---------------- *)
(* serde_json::Value; a Number is a PosInt (u64), a NegInt (i64) or a Float,
   a float being held as FloatScale times its value *)
FloatScale == 10
JNumber(repr, n) == [k |-> "Number", repr |-> repr, v |-> n]
JString(t) == [k |-> "String", v |-> t]
JBool(b) == [k |-> "Bool", v |-> b]
JNull == [k |-> "Null"]

(* Number::as_i64: a PosInt above i64::MAX has no i64 *)
I64_MAX == 2^(WordBits - 1) - 1
U64_MAX == 2^WordBits - 1
as_i64(n) ==
  CASE n.repr = "NegInt" -> Some(n.v)
    [] n.repr = "PosInt" -> IF n.v <= I64_MAX THEN Some(n.v) ELSE None
    [] OTHER -> None
as_u64(n) == IF n.repr = "PosInt" THEN Some(n.v) ELSE None
as_f64(n) == IF n.repr = "Float" THEN Some(n.v) ELSE Some(n.v * FloatScale)

JOk == [status |-> "Ok"]
JSONError(expected_value, actual_value) ==
  [status |-> "JSON", expected_value |-> expected_value, actual_value |-> actual_value]
Syntax(msg) == [status |-> "Syntax", msg |-> msg]
Compilation == [status |-> "Compilation"]

fmt_json(value) ==
  CASE value.k = "Number" -> ToString(value.v)
    [] value.k = "String" -> "\"" \o value.v \o "\""
    [] value.k = "Bool" -> IF value.v THEN "true" ELSE "false"
    [] value.k = "Null" -> "null"

(* validate_pcre_control building the regex before it looks at the value *)
validate_pcre_control_eager(controller, value) ==
  IF ~json_string_parses(controller) THEN Syntax("invalid escape")
  ELSE IF ~regex_compiles(json_unescape(controller)) THEN Compilation
  ELSE IF value.k # "String" THEN JSONError("text .pcre \"" \o controller \o "\"", value)
  ELSE IF regex_is_match(json_unescape(controller), value.v) THEN JOk
  ELSE JSONError("text .pcre " \o controller, value)

(* lines 9-49 *)
validate_pcre_control(controller, value) ==
  IF value.k = "String"
  THEN IF ~json_string_parses(controller) THEN Syntax("invalid escape")
       ELSE IF ~regex_compiles(json_unescape(controller)) THEN Compilation
       ELSE IF regex_is_match(json_unescape(controller), value.v) THEN JOk
       ELSE JSONError("text .pcre " \o controller, value)
  ELSE JSONError("text .pcre \"" \o controller \o "\"", value)

(* the guards `Some(ni) if ni < i as i64` of lines 54-89 and 104-139 *)
numeric_view(controller, n) ==
  CASE controller.tv = "INT" -> as_i64(n)
    [] controller.tv = "UINT" -> as_u64(n)
    [] controller.tv = "FLOAT" -> as_f64(n)

numeric_kind(controller) ==
  CASE controller.tv = "INT" -> "int"
    [] controller.tv = "UINT" -> "uint"
    [] controller.tv = "FLOAT" -> "float"

(* lines 51-98 *)
validate_lt_control(controller, value) ==
  IF value.k = "Number"
  THEN IF IsSome(numeric_view(controller, value))
          /\ numeric_view(controller, value)[1] < controller.v
       THEN JOk
       ELSE JSONError("expected " \o numeric_kind(controller) \o " < "
                      \o ToString(controller.v), value)
  ELSE Syntax(".lt control can only be used against numeric values. Got " \o fmt_json(value))

(* lines 102-149 *)
validate_gt_control(controller, value) ==
  IF value.k = "Number"
  THEN IF IsSome(numeric_view(controller, value))
          /\ numeric_view(controller, value)[1] > controller.v
       THEN JOk
       ELSE JSONError("expected " \o numeric_kind(controller) \o " > "
                      \o ToString(controller.v), value)
  ELSE Syntax(".gt control can only be used against numeric values. Got " \o fmt_json(value))

(* ---------------- the inputs of the model ---------------- *)
Elems == {VInt(1), VInt(7), VText("x")}

RECURSIVE ArraysUpTo(_)
ArraysUpTo(n) ==
  IF n = 0 THEN {<<>>}
  ELSE ArraysUpTo(n - 1)
       \cup {Append(a, e) : a \in {b \in ArraysUpTo(n - 1) : Len(b) = n - 1}, e \in Elems}

(* keys in the order of serde_cbor's BTreeMap *)
MapKeys == <<VInt(1), VText("a"), VText("b"), VText("k")>>
MapVals == {VInt(1), VText("x")}

RECURSIVE MapsOver(_, _)
MapsOver(keys, n) ==
  IF keys = <<>> \/ n = 0 THEN {<<>>}
  ELSE MapsOver(Tail(keys), n)
       \cup {<<<<Head(keys), v>>>> \o m : v \in MapVals, m \in MapsOver(Tail(keys), n - 1)}

Scalars == {VInt(-1), VInt(1), VInt(7), VText("x"), VText("xx"), VNull}
Tags == {VTag(n, inner) : n \in {32, 33}, inner \in {VText("x"), VInt(1), VInt(7)}}

Values ==
  Scalars \cup Tags
  \cup {VArray(a) : a \in ArraysUpTo(MaxLen)}
  \cup {VMap(m) : m \in MapsOver(MapKeys, MaxKeys)}

tInt == T1(Typename("int"))
tUint == T1(Typename("uint"))
tTstr == T1(Typename("tstr"))
tAny == T1(Typename("any"))
lit1 == T1(UintValue(1))
litX == T1(TextValue("x"))
ltT == Ctl(Typename("int"), ".lt", UintValue(5))
sizeT == Ctl(Typename("tstr"), ".size", UintValue(1))
pcreBad == Ctl(Typename("tstr"), ".pcre", TextValue(BadRegex))
pcreGood == Ctl(Typename("tstr"), ".pcre", TextValue("x+"))

Bare(occur, key, t) == ValueMemberKey(occur, Some(MKBareword(key)), t)
Keyed(occur, key, cut, t) ==
  ValueMemberKey(occur, Some(MKType1(Type1(Typename(key)), cut)), t)
Plain(occur, t) == ValueMemberKey(occur, None, t)

mapA == T1(MapT(G1(<<Bare(None, "a", tInt)>>)))
mapB == T1(MapT(G1(<<Bare(None, "b", tInt)>>)))
mapEmpty == T1(MapT(G1(<<>>)))
mapOptA == T1(MapT(G1(<<Bare(Some(Optional), "a", tInt)>>)))
mapStar == T1(MapT(G1(<<Keyed(Some(ZeroOrMore), "tstr", FALSE, tInt)>>)))
mapAStar == T1(MapT(G1(<<Bare(None, "a", tInt), Keyed(Some(ZeroOrMore), "uint", FALSE, tInt)>>)))
mapCut == T1(MapT(G1(<<Keyed(None, "k", TRUE, tInt),
                       Keyed(Some(ZeroOrMore), "tstr", FALSE, tAny)>>)))
mapStruct == T1(MapT(G1(<<Bare(None, "a", tTstr), Bare(None, "b", tUint)>>)))
mapStruct1 == T1(MapT(G1(<<Bare(None, "k", tUint)>>)))
mapGC == T1(MapT(Group(<<GroupChoice(<<Bare(None, "a", tInt)>>),
                         GroupChoice(<<Bare(None, "b", tInt)>>)>>)))
mapBad == T1(MapT(G1(<<Bare(None, "a", tInt), Bare(None, "b", pcreBad)>>)))

ElemTypes == {tInt, tUint, tTstr, lit1, litX, ltT, sizeT}
ChoiceTypes == {tInt, tTstr, lit1, ltT, mapA, mapB}
AndOperands == {Typename("int"), Typename("tstr"), TextValue("x"), UintValue(1), IntValue(-1)}
Occurs == {None, Some(Optional), Some(ZeroOrMore), Some(OneOrMore),
           Some(Exact(Some(1), Some(2)))}
MapTypes == {mapA, mapB, mapEmpty, mapOptA, mapStar, mapAStar, mapCut, mapStruct,
             mapStruct1, mapGC, mapBad}
ArrayGC == T1(ArrayT(Group(<<GroupChoice(<<Plain(None, tInt)>>),
                             GroupChoice(<<Plain(None, tTstr)>>)>>)))

RootTypes ==
  ElemTypes \cup MapTypes \cup {pcreBad, pcreGood, ArrayGC}
  \cup {Choice(a, b) : a \in ChoiceTypes, b \in ChoiceTypes}
  \cup {Ctl(t, ".and", u) : t \in AndOperands, u \in AndOperands}
  \cup {T1(ArrayT(G1(<<Plain(o, t)>>))) : o \in Occurs, t \in ElemTypes}
  \cup {T1(TaggedData(Some(n), t)) : n \in {32}, t \in {tTstr, tInt, ltT, Choice(tInt, tTstr)}}

Single(t) == <<TypeRule("r", None, t)>>

grp == GroupRule("grp", None, Bare(None, "a", tInt))
gen == TypeRule("g", Some(<<"T">>), T1(Typename("T")))
other == TypeRule("q", None, tTstr)
Prefixes == {<<>>, <<grp>>, <<gen>>, <<grp, gen>>, <<gen, grp>>}
Suffixes == {<<>>, <<other>>, <<gen, other>>}

(* g<T> = T  and  g<T> = [ * T ]  referenced as g<A> *)
gArg(id) == Type1(Typename(id))
gRef(id) == T1(TypenameG("g", <<gArg(id)>>))
genArr ==
  TypeRule("g", Some(<<"T">>), T1(ArrayT(G1(<<Plain(Some(ZeroOrMore), T1(Typename("T")))>>))))
GenericArgs == {"int", "tstr"}
GenericSchemas ==
  {<<TypeRule("r", None, gRef(a)), g>> : a \in GenericArgs, g \in {gen, genArr}}
  \cup {<<TypeRule("r", None, Choice(gRef(a), gRef(b))), gen>> :
          a \in GenericArgs, b \in GenericArgs}

Schemas ==
  {Single(t) : t \in RootTypes}
  \cup GenericSchemas
  \cup {p \o <<TypeRule("r", None, t)>> \o x :
          p \in Prefixes \ {<<>>}, t \in {tInt, mapA}, x \in Suffixes}
  \cup (Prefixes \ {<<>>})

(* ranges  L..U  and  L...U ; FloatValue(15) is the literal 1.5 *)
RangeBounds ==
  {<<IntValue(-1), UintValue(5)>>, <<IntValue(-2), IntValue(-1)>>,
   <<UintValue(1), UintValue(7)>>, <<FloatValue(15), FloatValue(55)>>,
   <<IntValue(-1), FloatValue(55)>>, <<UintValue(1), IntValue(-1)>>,
   <<FloatValue(15), UintValue(7)>>, <<TextValue("a"), TextValue("b")>>}
RangeTypes == {Range(b[1], b[2], incl) : b \in RangeBounds, incl \in BOOLEAN}
RangeSchemas ==
  {Single(t) : t \in RangeTypes}
  \cup {Single(T1(ArrayT(G1(<<Plain(o, t)>>)))) :
          o \in {None, Some(ZeroOrMore)}, t \in {Range(UintValue(1), UintValue(7), incl) : incl \in BOOLEAN}}
RangeValues ==
  {VInt(i) : i \in -3..8} \cup {VFloat(f) : f \in {10, 15, 30, 55, 60}}
  \cup {VText("x"), VArray(<<>>), VArray(<<VInt(1)>>), VArray(<<VInt(7), VInt(8)>>)}

(* T .size N *)
SizeTargets == {"tstr", "text", "bstr", "bytes", "uint", "int", "bool"}
SizeArgs == {0, 1, 2, 4, 16}
SizeSchemas == {Single(Ctl(Typename(t), ".size", UintValue(n))) : t \in SizeTargets, n \in SizeArgs}
SizeValues ==
  {VText(""), VText("x"), VText("xx"), VBytes(<<>>), VBytes(<<1>>), VBytes(<<1, 2>>),
   VBool(TRUE), VNull}
  \cup {VInt(i) : i \in {-1, 0, 1, 255, 256, 65535, 65536}}

(* T .lt C,  T .le C,  T .gt C,  T .ge C,  T .ne C *)
CompareTargets ==
  {Typename(t) : t \in {"int", "uint", "float", "number", "tstr", "bool"}} \cup {UintValue(1)}
CompareControllers == {UintValue(5), IntValue(-1), FloatValue(155)}
CompareSchemas ==
  {Single(Ctl(t, c, u)) :
     t \in CompareTargets, c \in {".lt", ".le", ".gt", ".ge", ".ne"}, u \in CompareControllers}
CompareValues ==
  {VInt(i) : i \in {-2, -1, 0, 4, 5, 6}} \cup {VFloat(f) : f \in {-15, 105, 155, 160}}
  \cup {VText("x"), VBool(TRUE)}

(* T .pcre C  and  T .regexp C , C a pattern or the name of a rule that is a
   choice of patterns *)
Patterns == {"x+", "^x$", "^xx$", ".", "\\\\.", BadRegex, BadJsonString}
PcreTargets == {Typename(t) : t \in {"tstr", "text", "int", "bstr"}} \cup {TextValue("x")}
PcreSchemas ==
  {Single(Ctl(t, c, TextValue(p))) : t \in PcreTargets, c \in {".pcre", ".regexp"}, p \in Patterns}
  \cup {<<TypeRule("r", None, Ctl(t, ".pcre", Typename("opts"))),
          TypeRule("opts", None, Choice(T1(TextValue(p)), T1(TextValue(q))))>> :
          t \in {Typename("tstr"), Typename("int")},
          p \in {"^x$", "^xx$", "\\\\."}, q \in {"^x$", "^xx$", "\\\\."}}
PcreValues == {VText("x"), VText("xx"), VText("."), VText("y"), VInt(1), VNull}

(* { a: int } .eq M  and  { a: int } .ne M  for map types M *)
Type2Of(t) == t.type_choices[1].type1.type2
MapEqSchemas ==
  {Single(Ctl(Type2Of(mapA), c, Type2Of(m))) :
     c \in {".eq", ".ne"}, m \in {mapA, mapStruct, mapEmpty, mapGC}}
MapEqValues == {VMap(m) : m \in MapsOver(MapKeys, MaxKeys)} \cup {VInt(1)}

(* { ? k: T .default D } *)
DefaultSchemas ==
  {Single(T1(MapT(G1(<<Bare(Some(Optional), "k", Ctl(Typename(t), ".default", d))>>)))) :
     t \in {"int", "tstr"}, d \in {UintValue(5), TextValue("x")}}

(* rules that refer to themselves *)
CyclicSchemas ==
  {<<TypeRule("a", None, T1(Typename("a")))>>,
   <<TypeRule("a", None, T1(Typename("b"))), TypeRule("b", None, T1(Typename("a")))>>,
   <<TypeRule("a", None, Choice(tInt, T1(ArrayT(G1(<<Plain(Some(ZeroOrMore), T1(Typename("a")))>>)))))>>}

(* major types  #M  and  #M.C *)
MajorSchemas ==
  {Single(T1(DataMajorType(mt, c))) : mt \in {0, 1, 2, 3, 7}, c \in {None, Some(1)}}
MajorValues ==
  {VInt(-1), VInt(1), VFloat(15), VFloat(10), VText("x"), VBytes(<<1>>), VNull, VBool(TRUE)}

(* T .within C *)
WithinTargets == {Typename("int"), Typename("tstr"), UintValue(1), TextValue("x")}
WithinControllers ==
  {Typename("uint"), Typename("tstr"), UintValue(1), Paren(Choice(lit1, tTstr)), Paren(pcreBad)}
WithinSchemas ==
  {Single(Ctl(t, ".within", c)) : t \in WithinTargets, c \in WithinControllers}
WithinValues == {VInt(-1), VInt(1), VInt(7), VText("x"), VText("xx"), VNull}

(* r = A  followed by  r /= B *)
Alternate(name, t) == [TypeRule(name, None, t) EXCEPT !.is_type_choice_alternate = TRUE]
AlternateTypes == {tInt, tTstr, lit1, ltT, mapA, Choice(tTstr, lit1)}
AlternateSchemas ==
  {<<TypeRule("r", None, t), Alternate("r", u)>> : t \in AlternateTypes, u \in AlternateTypes}

(* schemas whose errors arise inside and outside of choices:  [A, B] ,
   {a: A, b: B} , group choices, a type choice,  &(1, "x")  *)
ChoiceFromInlineGroup(g) == [t2 |-> "ChoiceFromInlineGroup", group |-> g]
FlagTypes == {tInt, Choice(tInt, tTstr)}
FlagSchemas ==
  {Single(T1(ArrayT(G1(<<Plain(None, t), Plain(None, u)>>)))) : t \in FlagTypes, u \in FlagTypes}
  \cup {Single(T1(MapT(G1(<<Bare(None, "a", t), Bare(None, "b", u)>>)))) :
          t \in FlagTypes, u \in FlagTypes}
  \cup {Single(ArrayGC), Single(mapGC), Single(Choice(tInt, tTstr)), Single(tInt),
        Single(T1(ChoiceFromInlineGroup(G1(<<Plain(None, lit1), Plain(None, litX)>>))))}
FlagItems == {VInt(1), VText("x"), VNull}
FlagValues ==
  FlagItems
  \cup {VArray(<<x>>) : x \in FlagItems}
  \cup {VArray(<<x, y>>) : x \in FlagItems, y \in FlagItems}
  \cup {VMap(<<<<VText("a"), x>>, <<VText("b"), y>>>>) : x \in FlagItems, y \in FlagItems}
  \cup {VMap(<<<<VText("k"), x>>>>) : x \in FlagItems}

(* [ O int, tstr ]  and  { O a: int, b: tstr } : an entry with an occurrence
   indicator followed by an entry without one *)
EntryOccurs == {Some(Optional), Some(ZeroOrMore), Some(OneOrMore)}
OccurSchemas ==
  {Single(T1(ArrayT(G1(<<Plain(o, tInt), Plain(None, tTstr)>>)))) : o \in EntryOccurs}
  \cup {Single(T1(MapT(G1(<<Bare(o, "a", tInt), Bare(None, "b", tTstr)>>)))) : o \in EntryOccurs}
OccurValues == {x \in Values : x.k \in {"Array", "Map"}}

(* { K => int }  for the prelude type names K, and maps of up to two keys of
   different kinds, in the order of serde_cbor's BTreeMap *)
KeyTypenames == {"tstr", "int", "uint", "bool", "nil", "bstr", "float"}
KeySchemas == {Single(T1(MapT(G1(<<Keyed(None, n, FALSE, tInt)>>)))) : n \in KeyTypenames}
KeysByKind == <<VInt(1), VBytes(<<1>>), VText("k"), VBool(TRUE), VNull, VFloat(15)>>
KeyValues ==
  {VMap(<<>>)}
  \cup {VMap(<<<<KeysByKind[i], x>>>>) : i \in 1..Len(KeysByKind), x \in MapVals}
  \cup {VMap(<<<<KeysByKind[p[1]], x>>, <<KeysByKind[p[2]], y>>>>) :
          p \in {q \in (1..Len(KeysByKind)) \X (1..Len(KeysByKind)) : q[1] < q[2]},
          x \in MapVals, y \in MapVals}

(* the validator next to which the control functions of the JSON validator
   are called *)
IdleCase == <<Single(tAny), VNull>>

Cases ==
  (Schemas \X Values) \cup (RangeSchemas \X RangeValues) \cup (SizeSchemas \X SizeValues)
  \cup (CompareSchemas \X CompareValues) \cup (PcreSchemas \X PcreValues)
  \cup (MapEqSchemas \X MapEqValues) \cup (DefaultSchemas \X MapEqValues)
  \cup (CyclicSchemas \X Values) \cup (MajorSchemas \X MajorValues)
  \cup (WithinSchemas \X WithinValues) \cup (AlternateSchemas \X Scalars)
  \cup (FlagSchemas \X FlagValues) \cup (OccurSchemas \X OccurValues)
  \cup (KeySchemas \X KeyValues) \cup {IdleCase}

(* calls of the control functions of the JSON validator *)
ControlNumerics == {INT(-1), INT(5), UINT(0), UINT(5), FLOAT(155)}
JsonNumbers ==
  {JNumber("PosInt", n) : n \in {0, 4, 5, 6, 16, I64_MAX, I64_MAX + 1, U64_MAX}}
  \cup {JNumber("NegInt", n) : n \in {-2, -1}}
  \cup {JNumber("Float", f) : f \in {-15, 105, 155, 160}}
JsonOthers == {JString("x"), JString("xx"), JString("."), JString("10"), JBool(TRUE), JNull}
Controls ==
  {[fn |-> f, controller |-> c, value |-> v] :
     f \in {"lt", "gt"}, c \in ControlNumerics, v \in JsonNumbers \cup JsonOthers}
  \cup {[fn |-> "pcre", pattern |-> c, value |-> v] :
          c \in Patterns, v \in JsonOthers \cup {JNumber("PosInt", 4)}}
NoControl == [fn |-> "none"]

(* ---------------- the state machine ---------------- *)
NoResult == [status |-> "none", errors |-> <<>>]

Init ==
  /\ \E c \in Cases : cddl = c[1] /\ cbor = c[2]
  /\ \E b \in BOOLEAN : cv = [new(cddl, cbor) EXCEPT !.overflow_checks = b]
  /\ result = NoResult
  /\ roots = <<>>
  /\ calls = 0
  /\ control \in (IF <<cddl, cbor>> = IdleCase THEN Controls ELSE {NoControl})
  /\ control_result = NoResult

Validate ==
  /\ calls < MaxCalls
  /\ \E r \in {validate(cv)} :
       /\ cv' = r.state
       /\ result' = r.result
       /\ roots' = r.roots
  /\ calls' = calls + 1
  /\ UNCHANGED <<cddl, cbor, control, control_result>>

(* one call of validate_lt_control, validate_gt_control or
   validate_pcre_control *)
ValidateControl ==
  /\ control # NoControl
  /\ control_result = NoResult
  /\ control_result' =
       CASE control.fn = "lt" -> validate_lt_control(control.controller, control.value)
         [] control.fn = "gt" -> validate_gt_control(control.controller, control.value)
         [] control.fn = "pcre" -> validate_pcre_control(control.pattern, control.value)
  /\ UNCHANGED <<cddl, cbor, cv, result, roots, calls, control>>

Next == Validate \/ ValidateControl

Spec == Init /\ [][Next]_vars

(* ---------------- properties ---------------- *)
(* the outcome of validating value v against the one-rule schema  r = t *)
R(t, v) == validate(new(Single(t), v)).result
Accepts(t, v) == R(t, v).status = "Ok"
AcceptsT2(t2, v) == Accepts(T1(t2), v)

Done == calls = 1
IsSingle == Len(cddl) = 1 /\ cddl[1].kind = "Type" /\ cddl[1].generic_params = None
RootType == cddl[1].value
RootChoices == RootType.type_choices
RootT1 == RootChoices[1].type1
IsPlainRoot(kind) ==
  /\ IsSingle
  /\ Len(RootChoices) = 1
  /\ RootT1.operator = None
  /\ RootT1.type2.t2 = kind
Reasons(errs) == {errs[i].reason : i \in 1..Len(errs)}
HardList(s) == IF IsSome(s.hard) THEN <<s.hard[1]>> ELSE <<>>

(* C1: validate returns Ok exactly when the walk left the error list empty
   and raised no hard error; otherwise it returns Err(Validation(list)) where
   list is the accumulated errors in the order they were produced (a hard
   error being the last one produced). *)
C1_ValidateReturnsAccumulatedErrors ==
  Done =>
    /\ (result.status = "Ok") <=> (cv.errors = <<>> /\ cv.hard = None)
    /\ result.status # "Ok" => result = Err(cv.errors \o HardList(cv))

(* C2: the root is the first type rule without generic parameters: exactly
   that rule is visited, group rules and generic rules before it are skipped,
   and nothing is visited when there is no such rule. *)
FirstPlainTypeRule ==
  LET idxs == {i \in 1..Len(cddl) :
                 cddl[i].kind = "Type" /\ cddl[i].generic_params = None}
  IN IF idxs = {} THEN <<>>
     ELSE <<CHOOSE i \in idxs : \A j \in idxs : i <= j>>

C3_TypeChoiceAbsorption ==
  (Done /\ IsSingle /\ Len(RootChoices) = 2) =>
    ((result.status = "Ok") <=>
       \E i \in 1..2 : Accepts(Type(<<RootChoices[i]>>), cbor))

(* C4: a value validates against the group choices  G1 // G2  exactly when
   it validates against the group G1 alone or against the group G2 alone. *)
C4_GroupChoiceAbsorption ==
  (/\ Done
   /\ \/ IsPlainRoot("Map")
      \/ IsPlainRoot("Array")
   /\ Len(RootT1.type2.group.group_choices) = 2) =>
    LET t2 == RootT1.type2
        alone(i) == T1([t2 EXCEPT !.group = Group(<<t2.group.group_choices[i]>>)])
    IN (result.status = "Ok") <=> \E i \in 1..2 : Accepts(alone(i), cbor)

(* C5: a map with a key that no group entry of the map type matches is
   rejected, also when no key of the map matched at all. *)
KeyMatches(e, key) ==
  /\ e.ge = "ValueMemberKey"
  /\ IsSome(e.member_key)
  /\ LET mk == e.member_key[1]
     IN CASE mk.mk = "Bareword" -> ValEq(key, VText(mk.ident))
          [] mk.mk = "Type1" ->
               LET id == mk.t1.type2.ident
               IN CASE id = "tstr" -> key.k = "Text"
                    [] id = "uint" -> key.k = "Integer" /\ key.v >= 0
                    [] OTHER -> ValEq(key, VText(id))
          [] OTHER -> FALSE

C5_ExtraKeyRejected ==
  (Done /\ IsPlainRoot("Map") /\ cbor.k = "Map") =>
    LET gcs == RootT1.type2.group.group_choices
        matched(key) == \E c \in 1..Len(gcs) : \E j \in 1..Len(gcs[c].group_entries) :
                          KeyMatches(gcs[c].group_entries[j], key)
    IN (\E p \in 1..Len(cbor.v) : ~matched(cbor.v[p][1])) => result.status = "Err"

(* C6: for an array type with one entry of type T and an array of n items:
   [* T] validates iff every item validates against T; [+ T] iff moreover
   n >= 1; [? T] requires n in {0, 1}; [N*M T] requires N <= n <= M and
   otherwise reports the length-per-occurrence error. *)
C6_OccurrenceLaw ==
  (/\ Done
   /\ IsPlainRoot("Array")
   /\ Len(RootT1.type2.group.group_choices) = 1
   /\ Len(RootT1.type2.group.group_choices[1].group_entries) = 1
   /\ IsSome(RootT1.type2.group.group_choices[1].group_entries[1].occur)
   /\ cbor.k = "Array") =>
    LET e == RootT1.type2.group.group_choices[1].group_entries[1]
        o == e.occur[1]
        n == Len(cbor.v)
        all == \A i \in 1..n : Accepts(e.entry_type, cbor.v[i])
        ok == result.status = "Ok"
    IN CASE o.o = "ZeroOrMore" -> ok <=> all
         [] o.o = "OneOrMore" -> ok <=> (n >= 1 /\ all)
         [] o.o = "Optional" -> ok => n \in {0, 1}
         [] o.o = "Exact" ->
              /\ ok => (o.lower[1] <= n /\ n <= o.upper[1])
              /\ ~(o.lower[1] <= n /\ n <= o.upper[1]) =>
                   ("expecting array with length per occurrence " \o fmt_occur(o))
                     \in Reasons(result.errors)

(* C7: in  { k ^ => int, * tstr => any }  a map whose key "k" carries a
   value that is not an int is rejected with the cut error for member key k;
   the later entry does not take over the key. *)
C7_CutLaw ==
  (/\ Done
   /\ IsSingle
   /\ RootType = mapCut
   /\ cbor.k = "Map"
   /\ IsSome(map_get(cbor.v, VText("k")))
   /\ map_get(cbor.v, VText("k"))[1].k # "Integer") =>
    /\ result.status = "Err"
    /\ cut_reason(TEXT("k"), "int", map_get(cbor.v, VText("k"))[1]) \in Reasons(result.errors)

(* C8: T .and U accepts a value only if T accepts it, and T .and T accepts
   whatever T accepts, for a type name, a text literal or a numeric literal. *)
C8_AndMonotone ==
  (/\ Done
   /\ IsSingle
   /\ Len(RootChoices) = 1
   /\ IsSome(RootT1.operator)
   /\ RootT1.operator[1].ctrl = ".and") =>
    LET t == RootT1.type2
        u == RootT1.operator[1].type2
    IN /\ result.status = "Ok" => AcceptsT2(t, cbor)
       /\ (t = u /\ AcceptsT2(t, cbor)) => result.status = "Ok"

(* C9: for a map type of required bareword entries  { k1: T1, ..., kn: Tn }
   a map holding exactly those keys with values of the entry types validates
   with no error; the same map without one of the keys gives exactly one
   error, the missing key; the same map with one more key gives exactly one
   error, the unexpected key. *)
IsStruct ==
  /\ IsPlainRoot("Map")
  /\ Len(RootT1.type2.group.group_choices) = 1
  /\ LET es == RootT1.type2.group.group_choices[1].group_entries
     IN /\ Len(es) >= 1
        /\ \A j \in 1..Len(es) :
             /\ es[j].ge = "ValueMemberKey"
             /\ es[j].occur = None
             /\ IsSome(es[j].member_key)
             /\ es[j].member_key[1].mk = "Bareword"

StructEntries == RootT1.type2.group.group_choices[1].group_entries
StructKey(j) == VText(StructEntries[j].member_key[1].ident)
Present == {j \in 1..Len(StructEntries) : IsSome(map_get(cbor.v, StructKey(j)))}
Extra ==
  {p \in 1..Len(cbor.v) :
     \A j \in 1..Len(StructEntries) : ~ValEq(cbor.v[p][1], StructKey(j))}
WellTyped ==
  \A j \in Present : Accepts(StructEntries[j].entry_type, map_get(cbor.v, StructKey(j))[1])

C9_StructValidation ==
  (Done /\ IsStruct /\ cbor.k = "Map" /\ WellTyped) =>
    LET missing == (1..Len(StructEntries)) \ Present
    IN /\ (missing = {} /\ Extra = {}) => result = Ok
       /\ (Cardinality(missing) = 1 /\ Extra = {}) =>
            /\ result.status = "Err"
            /\ Len(result.errors) = 1
            /\ \E j \in missing :
                 result.errors[1].reason
                   = missing_key_reason(TEXT(StructEntries[j].member_key[1].ident))
       /\ (missing = {} /\ Cardinality(Extra) = 1) =>
            /\ result.status = "Err"
            /\ Len(result.errors) = 1
            /\ \E p \in Extra :
                 result.errors[1].reason = unexpected_key_reason(cbor.v[p][1])

C9_Witness ==
  /\ Done
  /\ cddl = Single(mapStruct)
  /\ cbor = VMap(<<<<VText("a"), VText("x")>>, <<VText("b"), VInt(1)>>,
                   <<VText("k"), VInt(1)>>>>)
  /\ Len(result.errors) = 1
  /\ result.errors[1].reason = unexpected_key_reason(VText("k"))

(* C10: against  #6.N(T)  a value validates iff it is a tag with number N
   whose inner value validates against T; a tag with another number or a
   value that is no tag gives exactly one error, the tagged-data error, and
   with the right number the errors are those of the inner value against T. *)
C10_TaggedData ==
  (Done /\ IsPlainRoot("TaggedData") /\ IsSome(RootT1.type2.tag)) =>
    LET n == RootT1.type2.tag[1]
        t == RootT1.type2.t
    IN /\ (result.status = "Ok") <=>
            (cbor.k = "Tag" /\ cbor.v[1] = n /\ Accepts(t, cbor.v[2]))
       /\ (cbor.k # "Tag" \/ cbor.v[1] # n) =>
            /\ Len(result.errors) = 1
            /\ result.errors[1].reason = tagged_data_reason(Some(n), t, cbor)
       /\ (cbor.k = "Tag" /\ cbor.v[1] = n) =>
            result.errors = R(t, cbor.v[2]).errors

C10_Witness ==
  /\ Done
  /\ IsPlainRoot("TaggedData")
  /\ RootT1.type2.tag = Some(32)
  /\ cbor = VTag(32, VInt(1))
  /\ RootT1.type2.t = tTstr
  /\ Len(result.errors) = 1

(* C11: generic substitution is per reference site.  With  g<T> = T  a
   value validates against  r = g<A>  iff it validates against A, and
   against  r = g<A> / g<B>  iff it validates against A or against B: each
   reference uses the argument supplied at that reference. *)
C11_GenericPerReferenceSite ==
  (/\ Done
   /\ Len(cddl) = 2
   /\ cddl[2] = gen
   /\ cddl[1].kind = "Type" /\ cddl[1].generic_params = None
   /\ \A i \in 1..Len(RootChoices) :
        /\ RootChoices[i].type1.type2.t2 = "Typename"
        /\ RootChoices[i].type1.type2.ident = "g"
        /\ IsSome(RootChoices[i].type1.type2.generic_args)) =>
    ((result.status = "Ok") <=>
       \E i \in 1..Len(RootChoices) :
         Accepts(Type(<<TypeChoice(RootChoices[i].type1.type2.generic_args[1][1])>>), cbor))

(* C12: the errors of an array validated against  [ * T ]  (written directly
   or as  g<T> = [ * T ]  referenced as  g<A>)  sit exactly at the data paths
   "/i" of the elements i (0-based) that do not validate against T. *)
ArrayOf(t) == T1(ArrayT(G1(<<Plain(Some(ZeroOrMore), t)>>)))
IsArrayOf(t) ==
  \/ cddl = Single(ArrayOf(t))
  \/ \E a \in GenericArgs :
       t = T1(Typename(a)) /\ cddl = <<TypeRule("r", None, gRef(a)), genArr>>
ErrorPaths(errs) == {errs[i].cbor_location : i \in 1..Len(errs)}
FailingPaths(t, a) == {"/" \o ToString(i - 1) : i \in {j \in 1..Len(a) : ~Accepts(t, a[j])}}

C12_ArrayErrorPaths ==
  \A t \in ElemTypes :
    (Done /\ IsArrayOf(t) /\ cbor.k = "Array") =>
      ErrorPaths(result.errors) = FailingPaths(t, cbor.v)

(* C13: for bounds L, U of one numeric kind and a value v of that kind,
   L..U  accepts v exactly when L <= v <= U and  L...U  exactly when
   L <= v < U; a value outside the range yields exactly one error. *)
IsRangeRoot ==
  /\ IsSingle /\ Len(RootChoices) = 1
  /\ IsSome(RootT1.operator) /\ RootT1.operator[1].op = "RangeOp"
RangeLower == RootT1.type2
RangeUpper == RootT1.operator[1].type2
SameNumericKind ==
  \/ /\ RangeLower.t2 \in {"IntValue", "UintValue"}
     /\ RangeUpper.t2 \in {"IntValue", "UintValue"}
     /\ cbor.k = "Integer"
  \/ /\ RangeLower.t2 = "FloatValue" /\ RangeUpper.t2 = "FloatValue"
     /\ cbor.k = "Float"
InRange ==
  /\ RangeLower.value <= cbor.v
  /\ IF RootT1.operator[1].is_inclusive
     THEN cbor.v <= RangeUpper.value ELSE cbor.v < RangeUpper.value

C13_RangeOperator ==
  (Done /\ IsRangeRoot /\ SameNumericKind) =>
    /\ (result.status = "Ok") <=> InRange
    /\ ~InRange => Len(result.errors) = 1

(* C14:  T .size N  accepts a text value under a text target exactly when
   its length in bytes is N, a byte string under a byte-string target exactly
   when its length is N, and an unsigned integer v under uint exactly when
   v < 256^N, whatever N is; any other target yields an error about the
   target of .size. *)
IsSizeRoot ==
  /\ IsSingle /\ Len(RootChoices) = 1
  /\ IsSome(RootT1.operator) /\ RootT1.operator[1].op = "CtlOp"
  /\ RootT1.operator[1].ctrl = ".size"
  /\ RootT1.type2.t2 = "Typename"
  /\ RootT1.operator[1].type2.t2 = "UintValue"
SizeTarget == RootT1.type2.ident
SizeN == RootT1.operator[1].type2.value
(* v < 256^N over the mathematical integers; the values of the model are
   below 2^31, so the comparison holds from N = 4 on *)
BelowPow256(v, n) == IF 8 * n >= 31 THEN TRUE ELSE v < pow256(n)
SizeMisuse == "target for .size must a string or uint data type, got " \o SizeTarget

C14_SizeControl ==
  (Done /\ IsSizeRoot) =>
    /\ (SizeTarget \in {"tstr", "text"} /\ cbor.k = "Text") =>
         ((result.status = "Ok") <=> Len(cbor.v) = SizeN)
    /\ (SizeTarget \in {"bstr", "bytes"} /\ cbor.k = "Bytes") =>
         ((result.status = "Ok") <=> Len(cbor.v) = SizeN)
    /\ (SizeTarget = "uint" /\ cbor.k = "Integer" /\ cbor.v >= 0) =>
         ((result.status = "Ok") <=> BelowPow256(cbor.v, SizeN))
    /\ SizeTarget \notin {"tstr", "text", "bstr", "bytes", "uint"} =>
         (result.status = "Err" /\ SizeMisuse \in Reasons(result.errors))

(* C15: for a numeric value v and a numeric controller c of the same kind,
   T .lt c  accepts v exactly when v < c,  .le  when v <= c,  .gt  when
   v > c  and  .ge  when v >= c; a target that is not a numeric type yields
   the error that the target must be numerical; validate_lt_control and
   validate_gt_control compare a number of the controller's kind in the same
   way and return a syntax error for a JSON value that is not a number. *)
IsCtlRoot(ctrls) ==
  /\ IsSingle /\ Len(RootChoices) = 1
  /\ IsSome(RootT1.operator) /\ RootT1.operator[1].op = "CtlOp"
  /\ RootT1.operator[1].ctrl \in ctrls
CtlName == RootT1.operator[1].ctrl
CtlTarget == RootT1.type2
CtlController == RootT1.operator[1].type2
Compares(ctrl, v, c) ==
  CASE ctrl \in {".lt", "lt"} -> v < c
    [] ctrl = ".le" -> v <= c
    [] ctrl \in {".gt", "gt"} -> v > c
    [] ctrl = ".ge" -> v >= c
NumericTargets ==
  {"int", "integer", "nint", "uint", "number", "unsigned",
   "float", "float16", "float32", "float64", "float16-32", "float32-64"}
IsNumericTarget == CtlTarget.t2 = "Typename" /\ CtlTarget.ident \in NumericTargets
SameKindCbor ==
  \/ cbor.k = "Integer" /\ CtlController.t2 \in {"IntValue", "UintValue"}
  \/ cbor.k = "Float" /\ CtlController.t2 = "FloatValue"
SameKindJson ==
  /\ control.value.k = "Number"
  /\ \/ /\ control.controller.tv = "INT" /\ control.value.repr \in {"PosInt", "NegInt"}
        /\ control.value.v <= I64_MAX
     \/ control.controller.tv = "UINT" /\ control.value.repr = "PosInt"
     \/ control.controller.tv = "FLOAT" /\ control.value.repr = "Float"
ComparisonMisuse ==
  "target for .lt, .gt, .ge or .le operator must be a numerical data type, got "
  \o fmt_type2(CtlTarget)
ControlDone == control_result # NoResult

C15_WitnessJson ==
  /\ ControlDone /\ control.fn = "lt"
  /\ control.controller = FLOAT(155) /\ control.value = JNumber("Float", 105)
  /\ control_result.status = "Ok"

(* C16: under  T .pcre C  or  T .regexp C  with a string target, a text value
   validates exactly when it matches the pattern C or, C being the name of a
   rule that is a choice of patterns, at least one of them; a value that is
   not a text, or a target that is not a string type, yields one error and
   the pattern is not compiled. validate_pcre_control does the same on a
   JSON value. *)
IsPcreRoot ==
  /\ Len(cddl) \in {1, 2} /\ cddl[1].kind = "Type" /\ cddl[1].generic_params = None
  /\ Len(RootChoices) = 1
  /\ IsSome(RootT1.operator) /\ RootT1.operator[1].op = "CtlOp"
  /\ RootT1.operator[1].ctrl \in {".pcre", ".regexp"}
  /\ \/ Len(cddl) = 1 /\ CtlController.t2 = "TextValue"
     \/ Len(cddl) = 2 /\ CtlController = Typename("opts")
PcrePatterns ==
  IF CtlController.t2 = "TextValue" THEN {CtlController.value}
  ELSE {cddl[2].value.type_choices[i].type1.type2.value :
          i \in 1..Len(cddl[2].value.type_choices)}
PatternsCompile(ps) == \A q \in ps : json_string_parses(q) /\ regex_compiles(json_unescape(q))
IsStringTarget == CtlTarget.t2 = "Typename" /\ CtlTarget.ident \in {"tstr", "text"}
PcreValueMisuse ==
  ".regexp/.pcre control can only be matched against cbor string, got " \o fmt_value(cbor)
PcreTargetMisuse ==
  ".regexp/.pcre contro9l can only be matched against string data type, got "
  \o fmt_type2(CtlTarget)

C16_RegexpControl ==
  /\ (Done /\ IsPcreRoot) =>
       /\ (IsStringTarget /\ cbor.k = "Text" /\ PatternsCompile(PcrePatterns)) =>
            ((result.status = "Ok")
               <=> \E q \in PcrePatterns : regex_is_match(json_unescape(q), cbor.v))
       /\ (IsStringTarget /\ cbor.k # "Text") =>
            (result.status = "Err" /\ Reasons(result.errors) = {PcreValueMisuse}
             /\ cv.hard = None)
       /\ ~IsStringTarget =>
            (result.status = "Err" /\ Reasons(result.errors) = {PcreTargetMisuse}
             /\ cv.hard = None)
  /\ (ControlDone /\ control.fn = "pcre") =>
       /\ (control.value.k = "String" /\ PatternsCompile({control.pattern})) =>
            ((control_result.status = "Ok")
               <=> regex_is_match(json_unescape(control.pattern), control.value.v))
       /\ control.value.k # "String" => control_result.status = "JSON"

C16_Witness ==
  /\ Done /\ IsPcreRoot /\ IsStringTarget
  /\ PcrePatterns = {"^x$", "^xx$"} /\ cddl[2].value.type_choices[1].type1.type2.value = "^x$"
  /\ cbor = VText("xx")
  /\ result.status = "Ok"

(* C17: a control only constrains its target: for  .lt .le .gt .ge .ne .size
   with a typename target T, a value accepted under  T ctrl C  is accepted
   under T alone. *)
C17_ControlsConstrainTarget ==
  (/\ Done
   /\ IsCtlRoot({".lt", ".le", ".gt", ".ge", ".ne", ".size"})
   /\ CtlTarget.t2 = "Typename"
   /\ result.status = "Ok") =>
    AcceptsT2(CtlTarget, cbor)

(* C18: under  .eq  with a map target, a map whose size satisfies none of
   the entry counts of the controller's group choices is rejected with a
   length error; under  .ne  a map whose size equals an entry count is
   rejected, and a map whose size differs gets no length error. *)
IsMapEqRoot ==
  /\ IsCtlRoot({".eq", ".ne"})
  /\ CtlTarget.t2 = "Map" /\ CtlController.t2 = "Map"
  /\ cbor.k = "Map"
ControllerCounts ==
  {Len(CtlController.group.group_choices[i].group_entries) :
     i \in 1..Len(CtlController.group.group_choices)}
LengthReasons ==
  {entry_count_reason([count |-> n, entry_occurrence |-> None], Len(cbor.v)) :
     n \in ControllerCounts}
HasLengthError == Reasons(result.errors) \cap LengthReasons # {}

C18_MapEquality ==
  (Done /\ IsMapEqRoot) =>
    /\ (CtlName = ".eq" /\ Len(cbor.v) \notin ControllerCounts) =>
         (result.status = "Err" /\ HasLengthError)
    /\ (CtlName = ".ne" /\ Len(cbor.v) \in ControllerCounts) => result.status = "Err"
    /\ (CtlName = ".ne" /\ Len(cbor.v) \notin ControllerCounts) => ~HasLengthError

(* C19: under  { ? k: T .default D }  a map without key k gets no error, and
   a map whose value at k is invalid under T gets the error
   "expected default value D, got ...". *)
IsDefaultRoot ==
  /\ IsPlainRoot("Map")
  /\ Len(RootT1.type2.group.group_choices) = 1
  /\ Len(RootT1.type2.group.group_choices[1].group_entries) = 1
  /\ LET e == RootT1.type2.group.group_choices[1].group_entries[1]
     IN /\ e.occur = Some(Optional)
        /\ e.member_key = Some(MKBareword("k"))
        /\ Len(e.entry_type.type_choices) = 1
        /\ IsSome(e.entry_type.type_choices[1].type1.operator)
        /\ e.entry_type.type_choices[1].type1.operator[1].op = "CtlOp"
        /\ e.entry_type.type_choices[1].type1.operator[1].ctrl = ".default"
  /\ cbor.k = "Map"
DefaultEntry == RootT1.type2.group.group_choices[1].group_entries[1].entry_type.type_choices[1].type1
ValueAtK == map_get(cbor.v, VText("k"))
DefaultReasons ==
  {"expected default value " \o fmt_type2(DefaultEntry.operator[1].type2) \o ", got "
     \o fmt_value(x) : x \in {cbor} \cup {ValueAtK[i] : i \in 1..Len(ValueAtK)}}

C19_DefaultControl ==
  (Done /\ IsDefaultRoot) =>
    /\ cbor.v = <<>> => result.status = "Ok"
    /\ ValueAtK = None => Reasons(result.errors) \cap DefaultReasons = {}
    /\ (IsSome(ValueAtK) /\ ~AcceptsT2(DefaultEntry.type2, ValueAtK[1])) =>
         (result.status = "Err" /\ Reasons(result.errors) \cap DefaultReasons # {})

(* C20: validation of a schema whose rules refer to themselves returns a
   result, and for a rule cycle without any other alternative that result is
   an error "schema too deep". *)
TooDeep == "schema too deep"
C20_RecursionLimit ==
  (Done /\ cddl \in CyclicSchemas) =>
    /\ result.status \in {"Ok", "Err"}
    /\ Len(RootChoices) = 1 => (result.status = "Err" /\ TooDeep \in Reasons(result.errors))

(* C21: validation never aborts: for a major type  #M  or  #M.C  and a value of
   any kind, in particular a float under  #7.C , validate returns Ok or the
   list of the recorded errors. *)
IsMajorRoot == cddl \in MajorSchemas /\ cbor \in MajorValues
C21_ErrorsNeverThrown ==
  (Done /\ IsMajorRoot) => result.status \in {"Ok", "Err"}

(* C22: under  T .within C  a value that satisfies T and fails C gets exactly
   one error, the synthesized "expected type T .within type C"; a value that
   fails T keeps the errors of T and of C and gets no synthesized error; and
   the active control is cleared afterwards in every case. *)
IsWithinRoot == cddl \in WithinSchemas /\ cbor \in WithinValues
WithinReason ==
  "expected type " \o fmt_type2(CtlTarget) \o " .within type " \o fmt_type2(CtlController)
  \o ", got " \o fmt_value(cbor)
C22_WithinControl ==
  (Done /\ IsWithinRoot) =>
    /\ (AcceptsT2(CtlTarget, cbor) /\ ~AcceptsT2(CtlController, cbor)) =>
         (result.status = "Err" /\ Reasons(result.errors) = {WithinReason}
          /\ Len(result.errors) = 1)
    /\ ~AcceptsT2(CtlTarget, cbor) =>
         /\ result.status = "Err"
         /\ Len(result.errors) =
              Len(R(T1(CtlTarget), cbor).errors) + Len(R(T1(CtlController), cbor).errors)
         /\ WithinReason \notin Reasons(result.errors)
    /\ cv.ctrl = None

(* C23: when the walk ends on a hard error, the result of validate holds every
   validation error recorded before it as well as the hard error. *)
C23_HardErrorKeepsErrors ==
  (Done /\ IsSome(cv.hard)) =>
    /\ result.status = "Err"
    /\ cv.hard[1] \in {result.errors[i] : i \in 1..Len(result.errors)}
    /\ \A i \in 1..Len(cv.errors) :
         cv.errors[i] \in {result.errors[j] : j \in 1..Len(result.errors)}

(* C24: a choice is a transaction on the error list.  For a root rule with
   two or more alternatives (type choices  A / B  and alternates  r /= B ):
   when some alternative accepts the value the error list afterwards is the
   list from before the choice, which at the root is the empty list; when
   every alternative fails, the list is the errors of the alternatives in the
   order they were tried. *)
RECURSIVE FlatChoices(_, _)
FlatChoices(types, i) ==
  IF i > Len(types) THEN <<>>
  ELSE [j \in 1..Len(types[i].type_choices) |-> Type(<<types[i].type_choices[j]>>)]
       \o FlatChoices(types, i + 1)
Alternatives == FlatChoices(type_choice_alternates_from_ident(cddl, cddl[1].name), 1)
OtherRules == SelectSeq(cddl, LAMBDA r : r.name # cddl[1].name)
AlternativeResult(i) ==
  validate(new(<<TypeRule(cddl[1].name, None, Alternatives[i])>> \o OtherRules, cbor)).result
ErrorList(errs) == [i \in 1..Len(errs) |-> <<errs[i].reason, errs[i].cbor_location>>]
RECURSIVE AllErrors(_)
AllErrors(i) ==
  IF i > Len(Alternatives) THEN <<>>
  ELSE ErrorList(AlternativeResult(i).errors) \o AllErrors(i + 1)
IsChoiceRoot ==
  /\ cddl # <<>> /\ cddl[1].kind = "Type" /\ cddl[1].generic_params = None
  /\ cddl \notin CyclicSchemas
  /\ Len(Alternatives) >= 2
C24_ChoiceTransaction ==
  (Done /\ IsChoiceRoot /\ cv.hard = None) =>
    IF \E i \in 1..Len(Alternatives) : AlternativeResult(i).status = "Ok"
    THEN result = Ok /\ cv.errors = <<>>
    ELSE result.status = "Err" /\ ErrorList(result.errors) = AllErrors(1)

(* C25: the context flags of an error are accurate: is_multi_type_choice is
   set exactly when the error arose inside a type with two or more type
   choices (the root type, or the type of the group entry the error's
   location names), is_multi_group_choice exactly when it arose inside a group
   with two or more group choices, is_group_to_choice_enum exactly when it
   arose inside an  &  enumeration; an error of an entry that follows an entry
   with a type choice does not carry the flag of that choice. *)
IsFlagRoot == cddl \in FlagSchemas /\ cbor \in FlagValues
RootGroupChoices ==
  IF RootT1.type2.t2 \in {"Map", "Array"} THEN RootT1.type2.group.group_choices ELSE <<>>
EntryLocations ==
  IF RootT1.type2.t2 = "Map" THEN <<"/\"a\"", "/\"b\"">> ELSE <<"/0", "/1">>
EntryIsChoice(i) ==
  \E j \in 1..Len(RootGroupChoices) :
    /\ i <= Len(RootGroupChoices[j].group_entries)
    /\ Len(RootGroupChoices[j].group_entries[i].entry_type.type_choices) >= 2
InsideTypeChoice(e) ==
  \/ Len(RootChoices) >= 2
  \/ \E i \in 1..Len(EntryLocations) : e.cbor_location = EntryLocations[i] /\ EntryIsChoice(i)
InsideGroupChoice(e) ==
  /\ Len(RootGroupChoices) >= 2
  /\ cbor.k = RootT1.type2.t2
InsideEnum(e) == Len(RootChoices) = 1 /\ RootT1.type2.t2 = "ChoiceFromInlineGroup"
C25_ErrorFlagsAccurate ==
  (Done /\ IsFlagRoot) =>
    \A i \in 1..Len(result.errors) :
      LET e == result.errors[i]
      IN /\ e.is_multi_type_choice = InsideTypeChoice(e)
         /\ e.is_multi_group_choice = InsideGroupChoice(e)
         /\ e.is_group_to_choice_enum = InsideEnum(e)

(* C26: a second call of validate on the same validator returns what the
   first call returned: the same Ok or Err with the same error list. *)
SecondCall == calls = 1 /\ calls' = 2 /\ result.status \in {"Ok", "Err"}
C26_ValidateIsRepeatable == [][SecondCall => result' = result]_vars

(* C27: a group entry is validated under its own occurrence indicator.  In
   [ O A, B ]  and  { O a: A, b: B } , where only the first entry has an
   indicator, the second entry is validated with no occurrence in effect: an
   accepted array has an item at index 1 that B accepts, B is not matched
   against the item at index 0, and an accepted map has the key b with a
   value that B accepts. *)
IsOccurRoot == cddl \in OccurSchemas /\ cbor \in OccurValues
SecondEntry == RootT1.type2.group.group_choices[1].group_entries[2]
FirstEntry == RootT1.type2.group.group_choices[1].group_entries[1]
C27_EntryOwnOccurrence ==
  (Done /\ IsOccurRoot) =>
    /\ (RootT1.type2.t2 = "Array" /\ cbor.k = "Array") =>
         /\ result.status = "Ok" =>
              (Len(cbor.v) >= 2 /\ Accepts(SecondEntry.entry_type, cbor.v[2]))
         /\ \A i \in 1..Len(result.errors) :
              result.errors[i].cbor_location = "/0" =>
                result.errors[i].reason
                  \in Reasons(R(FirstEntry.entry_type, cbor.v[1]).errors)
    /\ (RootT1.type2.t2 = "Map" /\ cbor.k = "Map") =>
         (result.status = "Ok" =>
            (IsSome(map_get(cbor.v, VText("b")))
             /\ Accepts(SecondEntry.entry_type, map_get(cbor.v, VText("b"))[1])))

(* C28: a member key that is a prelude type name selects by key kind.  For
   { K => V }  without occurrence and a map value: when the map has a key of
   the kind K names (text for tstr, integer for int and uint, bool for bool,
   null for nil, bytes for bstr, float for float), the first such key is
   recorded as validated, its value is the one validated against V, and no
   "map requires entry key" error is added; when the map has no key of that
   kind, the error "map requires entry key of type K" is added. *)
IsKeyRoot == cddl \in KeySchemas /\ cbor \in KeyValues
KeyEntry == RootT1.type2.group.group_choices[1].group_entries[1]
KeyTypename == KeyEntry.member_key[1].t1.type2.ident
NamedKind(n) ==
  CASE n = "tstr" -> "Text"
    [] n \in {"int", "uint"} -> "Integer"
    [] n = "bool" -> "Bool"
    [] n = "nil" -> "Null"
    [] n = "bstr" -> "Bytes"
    [] n = "float" -> "Float"
RequiresKeyReason == "map requires entry key of type " \o KeyTypename
KeyOfKind == find_kind(cbor.v, NamedKind(KeyTypename))
C28_TypenameMemberKey ==
  (Done /\ IsKeyRoot) =>
    IF KeyOfKind = None
    THEN result.status = "Err" /\ RequiresKeyReason \in Reasons(result.errors)
    ELSE /\ RequiresKeyReason \notin Reasons(result.errors)
         /\ IsSome(cv.validated_keys) /\ contains(cv.validated_keys[1], KeyOfKind[1][1])
         /\ result.status = "Ok" => Accepts(KeyEntry.entry_type, KeyOfKind[1][2])
         /\ (Len(cbor.v) = 1 /\ Accepts(KeyEntry.entry_type, KeyOfKind[1][2])) =>
              result.status = "Ok"

(* C29: with an integer controller i, validate_gt_control returns Ok exactly
   for the JSON integers n > i and validate_lt_control exactly for those
   n < i, over all JSON integers, those above i64::MAX included. *)
IsIntegerControl ==
  /\ ControlDone /\ control.fn \in {"lt", "gt"}
  /\ control.controller.tv = "INT"
  /\ control.value.k = "Number" /\ control.value.repr \in {"PosInt", "NegInt"}
C29_IntegerControlRange ==
  IsIntegerControl =>
    ((control_result.status = "Ok")
       <=> Compares(control.fn, control.value.v, control.controller.v))

(* C30: when no rule of the schema is a type rule without generic parameters
   (there are only group rules and type rules with parameters), validate
   visits no rule, leaves the validator as it was and returns Ok, whatever
   the value. *)
NoRootRule ==
  \A i \in 1..Len(cddl) : ~(cddl[i].kind = "Type" /\ cddl[i].generic_params = None)
====
